---- MODULE Spec2Model ----
\* Pay-bills synchronisation between an Excel workbook and QuickBooks:
\* the payment-level comparison, the same-records count, the batch write-back
\* (add_bill_payments_batch), the run_pay_bills pipeline and the command
\* line's main().
\*
\* Representation
\*   amounts   integers in mills (1/1000 of a currency unit), so 100.00 is
\*             100000 and the one-cent tolerance 0.01 is 10; min() is exact
\*             on them and the two-decimal formatting of a request amount is
\*             RoundHalfEven2. The code's amounts are binary floats: a test
\*             abs(a - b) < 0.01 agrees with the exact one except when a and
\*             b are exactly one cent apart, where the float difference falls
\*             on either side of 0.01 (see float_below).
\*   ids       BillPayment.id is a string; an id is modelled by its rank in
\*             ascending string order (1 < 2 < 3), a memo by the same rank.
\*   dates     calendar days, modelled by their ordinal.
\*   None      the string NoneValue.
EXTENDS Integers, Sequences, FiniteSets, TLC

VARIABLES
    entry,           \* the function invoked: "run_pay_bills", "main",
                     \* "add_bill_payments_batch" or "reconcile"
    pc,              \* position in run_pay_bills / main / add_bill_payments_batch
    exc,             \* the exception raised (propagating or handled), or "none"
    skip_qb,         \* args.skip_qb of main()
    com_available,   \* win32com is not None
    float_below,     \* lower amount of a pair one cent apart -> whether the
                     \* float abs(a - b) of the pair is below the float 0.01
    workbook,        \* the workbook on disk: whether it can be read, and its payments
    ledger_store,    \* the bill payment checks QuickBooks holds
    ledger_bills,    \* vendor -> the BillRet elements QuickBooks returns for it
    excel_payments, qb_payments, comparison,      \* locals of run_pay_bills
    payments, idx, requests, planned,             \* locals of add_bill_payments_batch
    sent,            \* the batches handed to ProcessRequest, in order
    response,        \* the response elements of the last batch
    added_payments,  \* result of add_bill_payments_batch
    report_payload, reports_written,
    result,          \* local `result` of main(): <<>> while unbound, else <<dict>>
    exit_code,       \* <<>> until main() returns, then <<0>> or <<1>>
    ws,              \* rows of the worksheet _read_account_debit_sheet iterates over
    connections,     \* connections to QuickBooks opened and not closed
    sessions,        \* sessions begun and not ended
    com_calls,       \* calls made on the request processor, with their outcome
    sends,           \* calls of _send_qbxml started
    ctor_args,       \* arguments of a BillPayment(...) call
    bp,              \* the BillPayment constructed from ctor_args: <<>> or <<object>>
    bp_again,        \* the BillPayment constructed from the fields of bp
    excel_bills, qb_bills,   \* arguments of the bill-level compare_bill_payments
    results,         \* its result
    runs             \* calls of run_pay_bills made one after the other

\* State of the functions modelled on their own further down; the pipeline
\* leaves it alone.
reader_vars == <<ws>>
session_vars == <<connections, sessions, com_calls, sends>>
models_vars == <<ctor_args, bp, bp_again>>
bills_vars == <<excel_bills, qb_bills, results>>
other_vars == <<reader_vars, session_vars, models_vars, bills_vars, runs>>

vars == <<entry, pc, exc, skip_qb, com_available, float_below,
          workbook, ledger_store, ledger_bills,
          excel_payments, qb_payments, comparison,
          payments, idx, requests, planned, sent, response, added_payments,
          report_payload, reports_written, result, exit_code, other_vars>>

\* ------------------------------------------------------------------ bounds
MaxExcel == 2       \* longest list of Excel payments
MaxQB == 2          \* longest list of QuickBooks payments
MaxBills == 2       \* longest list of bills QuickBooks returns for a vendor
MaxCandidates == 2  \* longest list passed directly to add_bill_payments_batch
MaxRows == 2        \* most data rows of a worksheet
MaxSends == 2       \* most calls of _send_qbxml in a row
MaxRuns == 2        \* most calls of run_pay_bills one after the other

\* --------------------------------------------------------------- constants
NoneValue == "<None>"
AmountTolerance == 10   \* 0.01 in mills

\* ----------------------------------------------------------------- helpers
Abs(x) == IF x < 0 THEN -x ELSE x

\* Python min(a, b): a unless b < a.
Min(a, b) == IF b < a THEN b ELSE a

\* f"{Decimal(str(x)):.2f}": two decimals, ROUND_HALF_EVEN; the result is the
\* value of the formatted text, again in mills (a multiple of 10).
RoundHalfEven2(m) ==
    LET q == m \div 10
        r == m % 10
    IN  IF r < 5 THEN 10 * q
        ELSE IF r > 5 THEN 10 * (q + 1)
        ELSE IF q % 2 = 0 THEN 10 * q ELSE 10 * (q + 1)

\* str.strip() on the vendor strings of the model.
Strip(s) == IF s \in {" ", "  "} THEN "" ELSE s

\* The vendor test without the strip: only None counts as missing.
VendorMissing_noneonly(v) == v = NoneValue

\* `vendor is None or not vendor.strip()`
VendorMissing(v) == v = NoneValue \/ Strip(v) = ""

BillPayment(id, date, amount, vendor) ==
    [id |-> id, date |-> date, amount_to_pay |-> amount, vendor |-> vendor,
     source |-> "excel"]

IdsOf(s) == {s[k].id : k \in DOMAIN s}

\* The index with the first occurrence kept instead of the last.
ById_first(s, id) ==
    s[CHOOSE k \in DOMAIN s :
        /\ s[k].id = id
        /\ \A j \in DOMAIN s : s[j].id = id => k <= j]

\* {p.id: p for p in s}[id]: the last occurrence wins.
ById(s, id) ==
    s[CHOOSE k \in DOMAIN s :
        /\ s[k].id = id
        /\ \A j \in DOMAIN s : s[j].id = id => j <= k]

RECURSIVE SortedSeq(_)
SortedSeq(S) ==
    IF S = {} THEN <<>>
    ELSE LET m == CHOOSE x \in S : \A y \in S : x <= y
         IN  <<m>> \o SortedSeq(S \ {m})

\* ------------------------------------------------- comparison (Reconciler)
\* Same id on both sides, data equal: amounts within the tolerance
\* (inclusive) and the same date; the vendor is not compared.
SameData(e, q) ==
    /\ Abs(e.amount_to_pay - q.amount_to_pay) <= AmountTolerance
    /\ e.date = q.date

DataConflict(e, q) ==
    [record_id |-> e.id, reason |-> "data_conflict",
     excel_amount |-> e.amount_to_pay, qb_amount |-> q.amount_to_pay,
     excel_date |-> e.date, qb_date |-> q.date,
     excel_vendor |-> e.vendor, qb_vendor |-> q.vendor]

RECURSIVE ConflictsOver(_, _, _)
ConflictsOver(ids, external, ledger) ==
    IF ids = <<>> THEN <<>>
    ELSE LET e == ById(external, Head(ids))
             q == ById(ledger, Head(ids))
             rest == ConflictsOver(Tail(ids), external, ledger)
         IN  IF SameData(e, q) THEN rest ELSE <<DataConflict(e, q)>> \o rest

\* The ids of S in the order in which s first shows them.
RECURSIVE FirstSeen(_, _)
FirstSeen(s, S) ==
    IF s = <<>> THEN <<>>
    ELSE IF Head(s).id \in S
         THEN <<Head(s).id>> \o FirstSeen(Tail(s), S \ {Head(s).id})
         ELSE FirstSeen(Tail(s), S)

\* The comparison without the sort: both lists in input order.
reconcile_unsorted(external, ledger) ==
    LET only_e == FirstSeen(external, IdsOf(external) \ IdsOf(ledger))
        only_q == FirstSeen(ledger, IdsOf(ledger) \ IdsOf(external))
        both   == SortedSeq(IdsOf(external) \cap IdsOf(ledger))
    IN  [excel_only |-> [k \in DOMAIN only_e |->
                            [ById(external, only_e[k]) EXCEPT !.source = "excel"]],
         qb_only    |-> [k \in DOMAIN only_q |->
                            [ById(ledger, only_q[k]) EXCEPT !.source = "quickbooks"]],
         conflicts  |-> ConflictsOver(both, external, ledger)]

\* compare.compare_bill_payments(excel_payments, qb_payments) as run_pay_bills
\* calls it: the ComparisonReport of models.py.
reconcile(external, ledger) ==
    LET only_e == SortedSeq(IdsOf(external) \ IdsOf(ledger))
        only_q == SortedSeq(IdsOf(ledger) \ IdsOf(external))
        both   == SortedSeq(IdsOf(external) \cap IdsOf(ledger))
    IN  [excel_only |-> [k \in DOMAIN only_e |->
                            [ById(external, only_e[k]) EXCEPT !.source = "excel"]],
         qb_only    |-> [k \in DOMAIN only_q |->
                            [ById(ledger, only_q[k]) EXCEPT !.source = "quickbooks"]],
         conflicts  |-> ConflictsOver(both, external, ledger)]

\* abs(a - b) < 0.01 on floats. 100.01 - 100.0 is 0.010000000000005116 and
\* not below 0.01, 300.01 - 300.0 is 0.009999999999990905 and below it: for
\* amounts exactly one cent apart the outcome depends on the operands, and
\* float_below fixes it for each such pair of the run.
FloatBelowTolerance(a, b) ==
    IF Abs(a - b) = AmountTolerance THEN float_below[Min(a, b)]
    ELSE Abs(a - b) < AmountTolerance

\* runner._count_matching_payments
same_amount(e, q) == FloatBelowTolerance(e.amount_to_pay, q.amount_to_pay)

\* The count taken over the Excel rows instead of the shared ids: a repeated
\* id is counted once per row.
_count_matching_payments_rows(excel, qb) ==
    Cardinality({k \in DOMAIN excel :
                    /\ excel[k].id \in IdsOf(qb)
                    /\ same_amount(excel[k], ById(qb, excel[k].id))
                    /\ excel[k].date = ById(qb, excel[k].id).date})

\* The count with the rows paired by amount and date, whatever their ids.
_count_matching_payments_anyid(excel, qb) ==
    Cardinality({k \in DOMAIN excel :
                    \E j \in DOMAIN qb :
                        /\ same_amount(excel[k], qb[j])
                        /\ excel[k].date = qb[j].date})

_count_matching_payments(excel, qb) ==
    Cardinality({id \in IdsOf(excel) \cap IdsOf(qb) :
                    /\ same_amount(ById(excel, id), ById(qb, id))
                    /\ ById(excel, id).date = ById(qb, id).date})

\* ------------------------------------------------------------ qb_gateway
\* What one _send_qbxml call can do when the COM library is present:
\*   ok            the request is processed and the first status code is 0 or 1
\*   RuntimeError  _parse_response rejects the response (status code, no status)
\*   com_error     OpenConnection2, BeginSession or ProcessRequest raises the
\*                 COM library's exception, which is not a RuntimeError
\* Without the COM library _require_win32com raises RuntimeError.
SendOutcomes == IF com_available THEN {"ok", "RuntimeError", "com_error"}
                ELSE {"RuntimeError"}

\* Status codes of one response element: 0 ok, 1 nothing found, 3120 an error.
StatusCodes == {0, 1, 3120}

\* _parse_response: the first element carrying a statusCode decides.
ResponseAccepted(rs) == rs # <<>> /\ rs[1].statusCode \in {0, 1}

\* fetch_unpaid_bills_for_vendor on the BillRet elements of an accepted
\* response: (TxnID, AmountDue) of those with a TxnID and a positive AmountDue.
RECURSIVE UnpaidBills(_)
UnpaidBills(bill_rets) ==
    IF bill_rets = <<>> THEN <<>>
    ELSE LET b == Head(bill_rets)
         IN  IF b.txn_id # "" /\ b.amount_due > 0
             THEN <<b>> \o UnpaidBills(Tail(bill_rets))
             ELSE UnpaidBills(Tail(bill_rets))

\* QuickBooks knows the vendors in DOMAIN ledger_bills; a query for any other
\* name is answered with an error status, which the function turns into [].
fetch_unpaid_bills_for_vendor(vendor, outcome) ==
    IF outcome = "ok" /\ vendor \in DOMAIN ledger_bills
    THEN UnpaidBills(ledger_bills[vendor])
    ELSE <<>>

\* The loop over unpaid_bills: index of the first bill whose amount_due is
\* within a cent of the amount, 0 when the loop ends without a break.
RECURSIVE FirstMatch(_, _, _)
FirstMatch(unpaid_bills, amount, k) ==
    IF k > Len(unpaid_bills) THEN 0
    ELSE IF FloatBelowTolerance(unpaid_bills[k].amount_due, amount) THEN k
    ELSE FirstMatch(unpaid_bills, amount, k + 1)

\* The selection without the amount match: always the first bill.
SelectBill_first(unpaid_bills, amount) == unpaid_bills[1]

\* (bill_txn_id, bill_amount_due) after the loop and the fallback.
SelectBill(unpaid_bills, amount) ==
    LET k == FirstMatch(unpaid_bills, amount, 1)
    IN  IF k = 0 THEN unpaid_bills[1] ELSE unpaid_bills[k]

\* The amount without the cap: the payment's own amount.
PaymentAmount_nomin(amount_to_pay, bill_amount_due) ==
    RoundHalfEven2(amount_to_pay)

\* <PaymentAmount>: min(payment.amount_to_pay, bill_amount_due), two decimals.
PaymentAmount(amount_to_pay, bill_amount_due) ==
    RoundHalfEven2(Min(amount_to_pay, bill_amount_due))

\* The request without the payment's id: an empty memo.
AddRq_nomemo(payment, bill) ==
    [PayeeEntityRef |-> payment.vendor,
     TxnDate        |-> payment.date,
     Memo           |-> 0,
     TxnID          |-> bill.txn_id,
     PaymentAmount  |-> PaymentAmount(payment.amount_to_pay, bill.amount_due)]

\* The BillPaymentCheckAddRq built for a payment and the bill selected for it.
\* Escaping a text for XML and parsing it back yields the text, so a field
\* holds the value QuickBooks reads.
AddRq(payment, bill) ==
    [PayeeEntityRef |-> payment.vendor,
     TxnDate        |-> payment.date,
     Memo           |-> payment.id,
     TxnID          |-> bill.txn_id,
     PaymentAmount  |-> PaymentAmount(payment.amount_to_pay, bill.amount_due)]

\* The TxnID QuickBooks assigns to the check it creates for a request: a
\* number of its own, no id of a payment.
CheckTxnID(rq) == 100 + rq.Memo

\* The response element QuickBooks gives for one request: with status 0 the
\* created BillPaymentCheckRet, otherwise no Ret.
AddRs(rq, status) ==
    [statusCode |-> status,
     ret |-> IF status = 0
             THEN <<[TxnID |-> CheckTxnID(rq),
                     Memo |-> rq.Memo, TxnDate |-> rq.TxnDate,
                     Amount |-> rq.PaymentAmount,
                     PayeeEntityRef |-> rq.PayeeEntityRef]>>
             ELSE <<>>]

\* root.findall(".//BillPaymentCheckRet") in document order
RECURSIVE CheckRets(_)
CheckRets(rs) ==
    IF rs = <<>> THEN <<>> ELSE Head(rs).ret \o CheckRets(Tail(rs))

\* The added payment identified by the check's TxnID instead of its memo.
AddedPayment_txnid(ret) ==
    BillPayment(ret.TxnID, ret.TxnDate, ret.Amount,
                IF Strip(ret.PayeeEntityRef) = "" THEN NoneValue
                ELSE Strip(ret.PayeeEntityRef))

\* The BillPayment built from one BillPaymentCheckRet of the batch response.
AddedPayment(ret) ==
    BillPayment(ret.Memo, ret.TxnDate, ret.Amount,
                IF Strip(ret.PayeeEntityRef) = "" THEN NoneValue
                ELSE Strip(ret.PayeeEntityRef))

ParseAdded(rs) == [k \in DOMAIN CheckRets(rs) |-> AddedPayment(CheckRets(rs)[k])]

\* The BillPayment fetch_bill_payments builds for a check QuickBooks holds:
\* id from the memo, no vendor, the default source.
StoredPayment(ret) == BillPayment(ret.Memo, ret.TxnDate, ret.Amount, NoneValue)

\* ------------------------------------------------------------------ inputs
SeqsUpTo(S, n) == UNION {[1..k -> S] : k \in 0..n}

AmountsOf(s) == {s[k].amount_to_pay : k \in DOMAIN s}

DuesOf(table) ==
    UNION {{table[v][k].amount_due : k \in DOMAIN table[v]} : v \in DOMAIN table}

\* The outcomes the float subtraction can have on the pairs of A \X B that
\* are exactly one cent apart, a pair being named by its lower amount.
FloatOutcomes(A, B) ==
    [{Min(p[1], p[2]) :
        p \in {q \in A \X B : Abs(q[1] - q[2]) = AmountTolerance}} -> BOOLEAN]

EmptyComparison == [excel_only |-> <<>>, qb_only |-> <<>>, conflicts |-> <<>>]

\* report_payload as run_pay_bills initialises it (generated_at left out)
InitialPayload ==
    [status |-> "success", added_records |-> <<>>, conflicts |-> <<>>,
     same_records |-> 0, error |-> NoneValue]

Bill(txn_id, amount_due) == [txn_id |-> txn_id, amount_due |-> amount_due]

\* Bills of vendor "X": distinct BillRet elements, one of them fully paid.
XBillRets == {Bill("T1", 300000), Bill("T2", 100000), Bill("T3", 100010),
              Bill("T4", 0)}

XBillLists == {bs \in SeqsUpTo(XBillRets, MaxBills) :
                 \A i, j \in DOMAIN bs : i # j => bs[i] # bs[j]}

\* Vendor "Y" has one open bill.
BillTables == {[v \in {"X", "Y"} |-> IF v = "X" THEN xs
                                     ELSE <<Bill("T9", 50000)>>] :
                 xs \in XBillLists}

\* Payments handed directly to add_bill_payments_batch: any vendor text, for
\* vendor "X" an amount below, at and above the bills' amounts.
CandidateShapes ==
    {c \in {NoneValue, "", " ", "X", "Y"} \X {99996, 100000, 500000} :
        c[1] # "X" => c[2] = 100000}

CandidateLists ==
    {[k \in DOMAIN cs |-> BillPayment(k, 1, cs[k][2], cs[k][1])] :
        cs \in SeqsUpTo(CandidateShapes, MaxCandidates)}

\* ------------------------------------------------ add_bill_payments_batch
base_env == <<entry, skip_qb, com_available, float_below, workbook, ledger_bills>>
env_vars == <<base_env, other_vars>>
cli_vars == <<result, exit_code>>
run_vars == <<excel_payments, qb_payments, comparison, report_payload,
              reports_written>>

\* `if not payments: return []`, else the loop starts.
BatchStart ==
    /\ pc = "add_batch"
    /\ IF payments = <<>>
       THEN /\ pc' = "batch_returned"
            /\ added_payments' = <<>>
            /\ UNCHANGED <<idx, requests, planned>>
       ELSE /\ pc' = "plan"
            /\ idx' = 1
            /\ requests' = <<>>
            /\ planned' = <<>>
            /\ UNCHANGED added_payments
    /\ UNCHANGED <<exc, env_vars, cli_vars, ledger_store, run_vars, payments, sent, response>>

\* What one iteration of the loop did with its payment: whether the unpaid
\* bills were looked up, the list returned, and the bill selected (if any).
Iteration(payment, looked_up, unpaid_bills, bill) ==
    [payment |-> payment, looked_up |-> looked_up,
     unpaid_bills |-> unpaid_bills, bill |-> bill]

\* One iteration of `for payment in payments`.
PlanPayment ==
    /\ pc = "plan"
    /\ idx <= Len(payments)
    /\ LET payment == payments[idx]
       IN  IF VendorMissing(payment.vendor)
           THEN \* warning, continue
                /\ idx' = idx + 1
                /\ planned' = Append(planned,
                                     Iteration(payment, FALSE, <<>>, <<>>))
                /\ UNCHANGED <<pc, exc, requests>>
           ELSE \E outcome \in SendOutcomes :
                IF outcome = "com_error"
                THEN \* not a RuntimeError: leaves fetch_unpaid_bills_for_vendor
                     \* and add_bill_payments_batch
                     /\ exc' = "com_error"
                     /\ pc' = "raised"
                     /\ UNCHANGED <<idx, requests, planned>>
                ELSE LET unpaid_bills ==
                             fetch_unpaid_bills_for_vendor(payment.vendor, outcome)
                     IN  IF unpaid_bills = <<>>
                         THEN \* warning, continue
                              /\ idx' = idx + 1
                              /\ planned' = Append(planned,
                                    Iteration(payment, TRUE, <<>>, <<>>))
                              /\ UNCHANGED <<pc, exc, requests>>
                         ELSE LET bill == SelectBill(unpaid_bills,
                                                     payment.amount_to_pay)
                              IN  /\ requests' = Append(requests,
                                                        AddRq(payment, bill))
                                  /\ planned' = Append(planned,
                                        Iteration(payment, TRUE, unpaid_bills,
                                                  <<bill>>))
                                  /\ idx' = idx + 1
                                  /\ UNCHANGED <<pc, exc>>
    /\ UNCHANGED <<env_vars, cli_vars, ledger_store, run_vars, payments, sent, response,
                   added_payments>>

\* `if not requests: return []`
ReturnNoRequests ==
    /\ pc = "plan"
    /\ idx > Len(payments)
    /\ requests = <<>>
    /\ pc' = "batch_returned"
    /\ added_payments' = <<>>
    /\ UNCHANGED <<exc, env_vars, cli_vars, ledger_store, run_vars, payments, idx, requests,
                   planned, sent, response>>

\* _send_qbxml(qbxml) raising the COM library's exception: the connection or
\* the session cannot be opened, or ProcessRequest raises.
SendBatchRaises ==
    /\ pc = "plan"
    /\ idx > Len(payments)
    /\ requests # <<>>
    /\ "com_error" \in SendOutcomes
    /\ exc' = "com_error"
    /\ pc' = "raised"
    /\ UNCHANGED <<env_vars, cli_vars, ledger_store, run_vars, payments, idx, requests,
                   planned, sent, response, added_payments>>

\* _send_qbxml(qbxml) with QuickBooks processing the batch (continueOnError):
\* every request is answered with its own status, the created checks are
\* stored; then _parse_response and the parsing of the BillPaymentCheckRet.
SendBatch ==
    /\ pc = "plan"
    /\ idx > Len(payments)
    /\ requests # <<>>
    /\ com_available
    /\ \E status \in [DOMAIN requests -> StatusCodes] :
         LET rs == [k \in DOMAIN requests |-> AddRs(requests[k], status[k])]
             created == CheckRets(rs)
         IN  /\ sent' = Append(sent, requests)
             /\ response' = rs
             /\ ledger_store' = ledger_store \o
                    [k \in DOMAIN created |-> StoredPayment(created[k])]
             /\ added_payments' = IF ResponseAccepted(rs) THEN ParseAdded(rs)
                                  ELSE <<>>   \* except RuntimeError: return []
    /\ pc' = "batch_returned"
    /\ UNCHANGED <<exc, env_vars, cli_vars, run_vars, payments, idx, requests, planned>>

NextBatch ==
    \/ BatchStart
    \/ PlanPayment
    \/ ReturnNoRequests
    \/ SendBatchRaises
    \/ SendBatch

\* The state of the other functions while they are not running.
ReaderIdle == ws = <<>>

ModelsIdle ==
    /\ ctor_args = <<>>
    /\ bp = <<>>
    /\ bp_again = <<>>

BillsIdle ==
    /\ excel_bills = <<>>
    /\ qb_bills = <<>>
    /\ results = <<>>

SessionIdle ==
    /\ connections = 0
    /\ sessions = 0
    /\ com_calls = <<>>
    /\ sends = 0

\* run_pay_bills, main() and add_bill_payments_batch not running: the state
\* of the pipeline while another function is looked at on its own.
PipelineIdle ==
    /\ exc = "none"
    /\ skip_qb = FALSE
    /\ result = <<>>
    /\ exit_code = <<>>
    /\ com_available = TRUE
    /\ workbook = [exists |-> TRUE, rows |-> <<>>]
    /\ ledger_store = <<>>
    /\ ledger_bills = [v \in {"X", "Y"} |-> <<>>]
    /\ float_below = <<>>
    /\ excel_payments = <<>>
    /\ qb_payments = <<>>
    /\ comparison = [excel_only |-> <<>>, qb_only |-> <<>>, conflicts |-> <<>>]
    /\ payments = <<>>
    /\ idx = 0
    /\ requests = <<>>
    /\ planned = <<>>
    /\ sent = <<>>
    /\ response = <<>>
    /\ added_payments = <<>>
    /\ report_payload = [status |-> "success", added_records |-> <<>>,
                         conflicts |-> <<>>, same_records |-> 0,
                         error |-> NoneValue]
    /\ reports_written = 0

OtherIdle ==
    /\ ReaderIdle
    /\ SessionIdle
    /\ ModelsIdle
    /\ BillsIdle
    /\ runs = 0

\* add_bill_payments_batch called on its own (add_payments.py, cli.py).
InitBatch ==
    /\ entry = "add_bill_payments_batch"
    /\ pc = "add_batch"
    /\ exc = "none"
    /\ skip_qb = FALSE
    /\ result = <<>>
    /\ exit_code = <<>>
    /\ com_available \in BOOLEAN
    /\ workbook = [exists |-> TRUE, rows |-> <<>>]
    /\ ledger_store = <<>>
    /\ ledger_bills \in BillTables
    /\ excel_payments = <<>>
    /\ qb_payments = <<>>
    /\ comparison = EmptyComparison
    /\ payments \in CandidateLists
    /\ float_below \in FloatOutcomes(AmountsOf(payments), DuesOf(ledger_bills))
    /\ idx = 0
    /\ requests = <<>>
    /\ planned = <<>>
    /\ sent = <<>>
    /\ response = <<>>
    /\ added_payments = <<>>
    /\ report_payload = InitialPayload
    /\ reports_written = 0
    /\ OtherIdle

SpecBatch == InitBatch /\ [][NextBatch]_vars

\* ----------------------------------------------------------- run_pay_bills
batch_vars == <<payments, idx, requests, planned, sent, response, added_payments>>

\* runner._conflict_to_dict is field by field the Conflict; _qb_only_conflict:
_qb_only_conflict(payment) ==
    [record_id |-> payment.id, reason |-> "payment_only_in_quickbooks",
     excel_amount |-> NoneValue, qb_amount |-> payment.amount_to_pay,
     excel_date |-> NoneValue, qb_date |-> payment.date,
     excel_vendor |-> NoneValue, qb_vendor |-> payment.vendor]

_payment_to_dict(payment) ==
    [record_id |-> payment.id, amount |-> payment.amount_to_pay,
     date |-> payment.date, vendor |-> payment.vendor]

\* 1) extract_account_debit_vendor / _nonvendor: a missing workbook or sheet
\*    raises, otherwise the payments of the sheet.
ReadExcel ==
    /\ pc = "start"
    /\ IF workbook.exists
       THEN /\ excel_payments' = workbook.rows
            /\ pc' = "read_qb"
            /\ UNCHANGED exc
       ELSE /\ exc' = "FileNotFoundError"
            /\ pc' = "raised"
            /\ UNCHANGED excel_payments
    /\ UNCHANGED <<env_vars, cli_vars, ledger_store, qb_payments, comparison, batch_vars,
                   report_payload, reports_written>>

\* The ledger read with its failure swallowed: the run goes on with [].
ReadQB_lenient ==
    /\ pc = "read_qb"
    /\ \E outcome \in SendOutcomes :
         qb_payments' = IF outcome = "ok" THEN ledger_store ELSE <<>>
    /\ pc' = "compare"
    /\ UNCHANGED <<exc, env_vars, cli_vars, ledger_store, excel_payments, comparison,
                   batch_vars, report_payload, reports_written>>

\* 2) qb_gateway.read_data(): fetch_bill_payments lets every exception of
\*    _send_qbxml through.
ReadQB ==
    /\ pc = "read_qb"
    /\ \E outcome \in SendOutcomes :
         IF outcome = "ok"
         THEN /\ qb_payments' = ledger_store
              /\ pc' = "compare"
              /\ UNCHANGED exc
         ELSE /\ exc' = outcome
              /\ pc' = "raised"
              /\ UNCHANGED qb_payments
    /\ UNCHANGED <<env_vars, cli_vars, ledger_store, excel_payments, comparison, batch_vars,
                   report_payload, reports_written>>

\* 3) the comparison; 4) its excel_only goes to add_bill_payments_batch.
Compare ==
    /\ pc = "compare"
    /\ comparison' = reconcile(excel_payments, qb_payments)
    /\ payments' = comparison'.excel_only
    /\ pc' = "add_batch"
    /\ UNCHANGED <<exc, env_vars, cli_vars, ledger_store, excel_payments, qb_payments,
                   idx, requests, planned, sent, response, added_payments,
                   report_payload, reports_written>>

\* 5) and 6): conflicts, added_records and same_records of the payload.
BuildReport ==
    /\ pc = "batch_returned"
    /\ report_payload' =
          [report_payload EXCEPT
             !.added_records = [k \in DOMAIN added_payments |->
                                  _payment_to_dict(added_payments[k])],
             !.conflicts = comparison.conflicts \o
                           [k \in DOMAIN comparison.qb_only |->
                              _qb_only_conflict(comparison.qb_only[k])],
             !.same_records = _count_matching_payments(excel_payments,
                                                       qb_payments)]
    /\ pc' = "write_report"
    /\ UNCHANGED <<exc, env_vars, cli_vars, ledger_store, excel_payments, qb_payments,
                   comparison, batch_vars, reports_written>>

\* The handler without the payload update: the exception is swallowed.
Except_silent ==
    /\ pc = "raised"
    /\ pc' = "write_report"
    /\ UNCHANGED <<exc, env_vars, cli_vars, ledger_store, excel_payments, qb_payments,
                   comparison, batch_vars, report_payload, reports_written>>

\* The handler catching RuntimeError only: any other exception passes it.
Except_RuntimeError ==
    /\ pc = "raised"
    /\ exc = "RuntimeError"
    /\ report_payload' = [report_payload EXCEPT !.status = "error", !.error = exc]
    /\ pc' = "write_report"
    /\ UNCHANGED <<exc, env_vars, cli_vars, ledger_store, excel_payments, qb_payments,
                   comparison, batch_vars, reports_written>>

\* `except Exception as exc`
Except ==
    /\ pc = "raised"
    /\ report_payload' = [report_payload EXCEPT !.status = "error", !.error = exc]
    /\ pc' = "write_report"
    /\ UNCHANGED <<exc, env_vars, cli_vars, ledger_store, excel_payments, qb_payments,
                   comparison, batch_vars, reports_written>>

\* write_report(report_payload, report_path); return report_path. The call
\* stands after the try statement: when the file cannot be created or written
\* (output_path names a directory, say) its OSError leaves run_pay_bills.
WriteReport ==
    /\ pc = "write_report"
    /\ \E written \in BOOLEAN :
         IF written
         THEN /\ reports_written' = reports_written + 1
              /\ pc' = "done"
              /\ UNCHANGED exc
         ELSE /\ exc' = "OSError"
              /\ pc' = "escaped"
              /\ UNCHANGED reports_written
    /\ UNCHANGED <<env_vars, cli_vars, ledger_store, excel_payments, qb_payments,
                   comparison, batch_vars, report_payload>>

Next ==
    \/ ReadExcel
    \/ ReadQB
    \/ Compare
    \/ BatchStart
    \/ PlanPayment
    \/ ReturnNoRequests
    \/ SendBatchRaises
    \/ SendBatch
    \/ BuildReport
    \/ Except
    \/ WriteReport

\* Payments the Excel reader yields: a vendor or None, two amounts.
ExcelRows ==
    {BillPayment(id, 1, c[2], c[1]) :
        id \in {1, 2}, c \in {<<NoneValue, 100000>>, <<"X", 500000>>}}

\* Checks QuickBooks holds, as fetch_bill_payments returns them: for id 2
\* the amount of the Excel row, and an amount one cent above it.
QBRows == {BillPayment(c[1], 1, c[2], NoneValue) :
             c \in {<<2, 100000>>, <<2, 100010>>, <<3, 100000>>}}

Workbooks ==
    {[exists |-> FALSE, rows |-> <<>>]} \cup
    {[exists |-> TRUE, rows |-> rows] : rows \in SeqsUpTo(ExcelRows, MaxExcel)}

RunBillTables ==
    {[v \in {"X", "Y"} |-> IF v = "X" THEN xs ELSE <<>>] :
        xs \in {<<>>, <<Bill("T1", 300000)>>,
                <<Bill("T1", 300000), Bill("T2", 100000)>>}}

Init ==
    /\ entry = "run_pay_bills"
    /\ pc = "start"
    /\ exc = "none"
    /\ skip_qb = FALSE
    /\ result = <<>>
    /\ exit_code = <<>>
    /\ com_available \in BOOLEAN
    /\ workbook \in Workbooks
    /\ ledger_store \in SeqsUpTo(QBRows, MaxQB)
    /\ ledger_bills \in RunBillTables
    /\ float_below \in FloatOutcomes(AmountsOf(workbook.rows),
                                     AmountsOf(ledger_store) \cup DuesOf(ledger_bills))
    /\ excel_payments = <<>>
    /\ qb_payments = <<>>
    /\ comparison = EmptyComparison
    /\ payments = <<>>
    /\ idx = 0
    /\ requests = <<>>
    /\ planned = <<>>
    /\ sent = <<>>
    /\ response = <<>>
    /\ added_payments = <<>>
    /\ report_payload = InitialPayload
    /\ reports_written = 0
    /\ OtherIdle

Spec == Init /\ [][Next]_vars

\* run_pay_bills is one synchronous call: a step that can be taken is taken.
SpecFair == Spec /\ WF_vars(Next)

\* ------------------------------------------ run_pay_bills called again
\* The operator runs run_pay_bills once more on the same workbook and the
\* same company file: the locals start afresh, QuickBooks keeps its checks.
\* sent goes on recording every batch, reports_written every report.
Rerun ==
    /\ pc \in {"done", "escaped"}
    /\ runs < MaxRuns
    /\ runs' = runs + 1
    /\ pc' = "start"
    /\ exc' = "none"
    /\ excel_payments' = <<>>
    /\ qb_payments' = <<>>
    /\ comparison' = EmptyComparison
    /\ payments' = <<>>
    /\ idx' = 0
    /\ requests' = <<>>
    /\ planned' = <<>>
    /\ response' = <<>>
    /\ added_payments' = <<>>
    /\ report_payload' = InitialPayload
    /\ UNCHANGED <<base_env, cli_vars, ledger_store, sent, reports_written,
                   reader_vars, session_vars, models_vars, bills_vars>>

NextRerun == Next \/ Rerun

\* Two payments of vendor "X", one above the open bill's amount.
RerunRows == {BillPayment(1, 1, 100000, "X"), BillPayment(2, 1, 500000, "X")}

\* QuickBooks holds no payment, or one for id 2: one check per id.
InitRerun ==
    /\ entry = "run_pay_bills"
    /\ pc = "start"
    /\ exc = "none"
    /\ skip_qb = FALSE
    /\ result = <<>>
    /\ exit_code = <<>>
    /\ com_available = TRUE
    /\ workbook \in {[exists |-> TRUE, rows |-> rows] :
                        rows \in SeqsUpTo(RerunRows, MaxExcel)}
    /\ ledger_store \in {<<>>, <<BillPayment(2, 2, 100000, NoneValue)>>}
    /\ ledger_bills = [v \in {"X", "Y"} |->
                          IF v = "X" THEN <<Bill("T1", 300000)>> ELSE <<>>]
    /\ float_below \in FloatOutcomes(AmountsOf(workbook.rows),
                                     AmountsOf(ledger_store) \cup DuesOf(ledger_bills))
    /\ excel_payments = <<>>
    /\ qb_payments = <<>>
    /\ comparison = EmptyComparison
    /\ payments = <<>>
    /\ idx = 0
    /\ requests = <<>>
    /\ planned = <<>>
    /\ sent = <<>>
    /\ response = <<>>
    /\ added_payments = <<>>
    /\ report_payload = InitialPayload
    /\ reports_written = 0
    /\ ReaderIdle
    /\ SessionIdle
    /\ ModelsIdle
    /\ BillsIdle
    /\ runs = 1

SpecRerun == InitRerun /\ [][NextRerun]_vars

\* ------------------------------------------------------------ cli.main()
\* compare_records(excel_records, qb_data) as main() uses its result: a dict
\* read under the keys added_to_bill_payments (the records in Excel but not
\* in QuickBooks), same_records_count and conflicts.
compare_records(excel, qb) ==
    [added_to_bill_payments |-> reconcile(excel, qb).excel_only,
     same_records_count     |-> _count_matching_payments(excel, qb),
     conflicts              |-> reconcile(excel, qb).conflicts]

main_vars == <<comparison, report_payload>>

\* "Reading Excel workbook...": any exception of the reader returns 1.
MainReadExcel ==
    /\ pc = "main_start"
    /\ IF workbook.exists
       THEN /\ excel_payments' = workbook.rows
            /\ pc' = "main_fetch"
            /\ UNCHANGED <<exc, exit_code>>
       ELSE /\ exc' = "FileNotFoundError"
            /\ exit_code' = <<1>>
            /\ pc' = "main_returned"
            /\ UNCHANGED excel_payments
    /\ UNCHANGED <<env_vars, main_vars, ledger_store, qb_payments, batch_vars,
                   reports_written, result>>

\* `if args.skip_qb ...: print(...)`: qb_data stays [] and the else branch,
\* which holds the fetch AND the comparison, is not entered.
MainSkipQB ==
    /\ pc = "main_fetch"
    /\ skip_qb
    /\ pc' = "main_result"
    /\ UNCHANGED <<exc, env_vars, main_vars, ledger_store, excel_payments,
                   qb_payments, batch_vars, reports_written, cli_vars>>

\* else: fetch_bill_payments(args.company_file); any exception returns 1.
MainFetchQB ==
    /\ pc = "main_fetch"
    /\ ~skip_qb
    /\ \E outcome \in SendOutcomes :
         IF outcome = "ok"
         THEN /\ qb_payments' = ledger_store
              /\ pc' = "main_compare"
              /\ UNCHANGED <<exc, exit_code>>
         ELSE /\ exc' = outcome
              /\ exit_code' = <<1>>
              /\ pc' = "main_returned"
              /\ UNCHANGED qb_payments
    /\ UNCHANGED <<env_vars, main_vars, ledger_store, excel_payments,
                   batch_vars, reports_written, result>>

\* result = compare_records(excel_records, qb_data); an exception returns 1.
MainCompare ==
    /\ pc = "main_compare"
    /\ \E raises \in BOOLEAN :
         IF raises
         THEN /\ exc' = "Exception"
              /\ exit_code' = <<1>>
              /\ pc' = "main_returned"
              /\ UNCHANGED result
         ELSE /\ result' = <<compare_records(excel_payments, qb_payments)>>
              /\ pc' = "main_result"
              /\ UNCHANGED <<exc, exit_code>>
    /\ UNCHANGED <<env_vars, main_vars, ledger_store, excel_payments,
                   qb_payments, batch_vars, reports_written>>

\* `if result["added_to_bill_payments"]:` stands outside every try: with
\* result never assigned the UnboundLocalError leaves main(). Otherwise the
\* records become BillPayment objects for add_bill_payments_batch, or there
\* is nothing to add.
MainUseResult ==
    /\ pc = "main_result"
    /\ IF result = <<>>
       THEN /\ exc' = "UnboundLocalError"
            /\ pc' = "escaped"
            /\ UNCHANGED payments
       ELSE IF result[1].added_to_bill_payments # <<>>
       THEN /\ payments' = result[1].added_to_bill_payments
            /\ pc' = "add_batch"
            /\ UNCHANGED exc
       ELSE /\ pc' = "main_summary"
            /\ UNCHANGED <<exc, payments>>
    /\ UNCHANGED <<env_vars, main_vars, ledger_store, excel_payments, qb_payments,
                   idx, requests, planned, sent, response, added_payments,
                   reports_written, cli_vars>>

\* After add_bill_payments_batch returned: the result takes the added
\* payments and save_json_report writes it (report_payload is what the file
\* holds); a failure to save returns 1.
MainSaveReport ==
    /\ pc = "batch_returned"
    /\ result' = <<[result[1] EXCEPT !.added_to_bill_payments = added_payments]>>
    /\ \E written \in BOOLEAN :
         IF written
         THEN /\ reports_written' = reports_written + 1
              /\ report_payload' = result'[1]
              /\ pc' = "main_summary"
              /\ UNCHANGED <<exc, exit_code>>
         ELSE /\ exc' = "Exception"   \* raised by save_json_report
              /\ exit_code' = <<1>>
              /\ pc' = "main_returned"
              /\ UNCHANGED <<reports_written, report_payload>>
    /\ UNCHANGED <<env_vars, comparison, ledger_store, excel_payments,
                   qb_payments, batch_vars>>

\* `except Exception as e: print("Failed to add payments ..."); return 1`
MainExceptAdd ==
    /\ pc = "raised"
    /\ exit_code' = <<1>>
    /\ pc' = "main_returned"
    /\ UNCHANGED <<exc, env_vars, main_vars, ledger_store, excel_payments,
                   qb_payments, batch_vars, reports_written, result>>

\* COMPARISON SUMMARY; return 0
MainSummary ==
    /\ pc = "main_summary"
    /\ exit_code' = <<0>>
    /\ pc' = "main_returned"
    /\ UNCHANGED <<exc, env_vars, main_vars, ledger_store, excel_payments,
                   qb_payments, batch_vars, reports_written, result>>

NextMain ==
    \/ MainReadExcel
    \/ MainSkipQB
    \/ MainFetchQB
    \/ MainCompare
    \/ MainUseResult
    \/ BatchStart
    \/ PlanPayment
    \/ ReturnNoRequests
    \/ SendBatchRaises
    \/ SendBatch
    \/ MainSaveReport
    \/ MainExceptAdd
    \/ MainSummary

InitMain ==
    /\ entry = "main"
    /\ pc = "main_start"
    /\ exc = "none"
    /\ skip_qb \in BOOLEAN
    /\ com_available \in BOOLEAN
    /\ workbook \in Workbooks
    /\ ledger_store \in SeqsUpTo(QBRows, MaxQB)
    /\ ledger_bills \in RunBillTables
    /\ float_below \in FloatOutcomes(AmountsOf(workbook.rows),
                                     AmountsOf(ledger_store) \cup DuesOf(ledger_bills))
    /\ excel_payments = <<>>
    /\ qb_payments = <<>>
    /\ comparison = EmptyComparison
    /\ payments = <<>>
    /\ idx = 0
    /\ requests = <<>>
    /\ planned = <<>>
    /\ sent = <<>>
    /\ response = <<>>
    /\ added_payments = <<>>
    /\ report_payload = InitialPayload
    /\ reports_written = 0
    /\ OtherIdle
    /\ result = <<>>
    /\ exit_code = <<>>

SpecMain == InitMain /\ [][NextMain]_vars

\* Either entry point: run_pay_bills or main().
NextEntry ==
    \/ entry = "run_pay_bills" /\ Next
    \/ entry = "main" /\ NextMain

SpecEntry == (Init \/ InitMain) /\ [][NextEntry]_vars

\* ------------------------------------- the comparison as a pure function
\* The comparison and the same-records count applied to two lists.
Reconcile ==
    /\ pc = "reconcile"
    /\ comparison' = reconcile(excel_payments, qb_payments)
    /\ report_payload' =
          [report_payload EXCEPT
             !.same_records = _count_matching_payments(excel_payments,
                                                       qb_payments)]
    /\ pc' = "reconciled"
    /\ UNCHANGED <<exc, env_vars, cli_vars, ledger_store, excel_payments, qb_payments,
                   batch_vars, reports_written>>

NextCmp == Reconcile

CmpExcelRows ==
    {BillPayment(id, 1, a, "X") : id \in {1, 2}, a \in {100000, 100010}}

CmpQBRows ==
    {BillPayment(id, c[1], c[2], c[3]) :
        id \in {1, 3},
        c \in ({1, 2} \X {100000, 100020} \X {NoneValue}) \cup
              {<<1, 100000, "X">>}}

InitCmp ==
    /\ entry = "reconcile"
    /\ pc = "reconcile"
    /\ exc = "none"
    /\ skip_qb = FALSE
    /\ result = <<>>
    /\ exit_code = <<>>
    /\ com_available = TRUE
    /\ workbook = [exists |-> TRUE, rows |-> <<>>]
    /\ ledger_store = <<>>
    /\ ledger_bills = [v \in {"X", "Y"} |-> <<>>]
    /\ excel_payments \in SeqsUpTo(CmpExcelRows, MaxExcel)
    /\ qb_payments \in SeqsUpTo(CmpQBRows, MaxQB) \cup {excel_payments}
    /\ float_below \in FloatOutcomes(AmountsOf(excel_payments),
                                     AmountsOf(qb_payments))
    /\ comparison = EmptyComparison
    /\ payments = <<>>
    /\ idx = 0
    /\ requests = <<>>
    /\ planned = <<>>
    /\ sent = <<>>
    /\ response = <<>>
    /\ added_payments = <<>>
    /\ report_payload = InitialPayload
    /\ reports_written = 0
    /\ OtherIdle

SpecCmp == InitCmp /\ [][NextCmp]_vars

\* ------------------------------------------------------------ excel_reader
\* A text cell is the sequence of its characters; a cell is <<>> when empty
\* (None) and <<value>> otherwise.
Sp == " "
Separator == <<" ", "-", " ">>

RECURSIVE LStrip(_)
LStrip(t) == IF t # <<>> /\ Head(t) = Sp THEN LStrip(Tail(t)) ELSE t

RECURSIVE RStrip(_)
RStrip(t) ==
    IF t # <<>> /\ t[Len(t)] = Sp THEN RStrip(SubSeq(t, 1, Len(t) - 1)) ELSE t

\* str.strip() on a text
StripText(t) == RStrip(LStrip(t))

\* text.find(" - "): the first position at which the separator starts, or 0
FindSeparator(t) ==
    LET at == {i \in 1..(Len(t) - 2) : SubSeq(t, i, i + 2) = Separator}
    IN  IF at = {} THEN 0 ELSE CHOOSE i \in at : \A j \in at : i <= j

\* text.split(" - ", 1)[0]
LeftOfSeparator(t) == SubSeq(t, 1, FindSeparator(t) - 1)

\* parent_str of a row: "" for an empty cell, else the trimmed text, cut at
\* the first " - " when it holds one.
ParentStr(cell) ==
    IF cell = <<>> \/ cell[1] = <<>> THEN <<>>
    ELSE LET parent_text == StripText(cell[1])
         IN  IF FindSeparator(parent_text) # 0
             THEN StripText(LeftOfSeparator(parent_text))
             ELSE parent_text

\* compare.get_bill_id on a bill dict: the values under "Parent ID" and
\* "Child ID" ("" when the key is absent), trimmed; "{parent}-{child}" when
\* the child is not empty, else the parent.
get_bill_id(bill) ==
    LET parent_id == StripText(bill.parent_id)
        child_id  == StripText(bill.child_id)
    IN  IF child_id # <<>> THEN parent_id \o <<"-">> \o child_id
        ELSE parent_id

\* str(comments).strip().lower() on the comments of the model
StripLower(s) ==
    CASE s \in {"Shipping Charges", " shipping charges ", "SHIPPING CHARGES"}
            -> "shipping charges"
      [] s = "Shipping" -> "shipping"
      [] s = " " -> ""
      [] OTHER -> s

\* `check_amount in (None, "")`
AmountMissing(cell) ==
    cell.kind = "none" \/ (cell.kind = "str" /\ cell.text = "")

\* float(str(check_amount).strip()): a number cell is its value, a text
\* cell the value it spells, ValueError (<<>>) when it spells none.
AmountValue(cell) ==
    CASE cell.kind = "number" -> <<cell.value>>
      [] cell.kind = "str"    -> cell.spells
      [] OTHER                -> <<>>

\* date.fromisoformat(s[:10]), then strptime with "%Y-%m-%d",
\* "%Y-%m-%d %H:%M:%S", "%m/%d/%Y", "%m/%d/%y": the day a date text resolves
\* to, <<>> when every attempt raises ValueError. A text is given by its
\* layout and the day it writes; surrounding blanks are stripped first.
IsoPrefixed == {"YYYY-MM-DD", "YYYY-MM-DD HH:MM:SS", "YYYY-MM-DDTHH:MM"}
Strptimed == {"YYYY-MM-DD", "YYYY-MM-DD HH:MM:SS", "MM/DD/YYYY", "MM/DD/YY"}

ParseDateText(text) ==
    IF text.layout \in IsoPrefixed THEN <<text.day>>
    ELSE IF text.layout \in Strptimed THEN <<text.day>>
    ELSE <<>>

\* parsed_date of a row: a datetime gives its date, a date itself, a text
\* what it parses to, anything else (an empty cell, a number) None.
ParsedDate(cell) ==
    CASE cell.kind = "datetime" -> <<cell.day>>
      [] cell.kind = "date"     -> <<cell.day>>
      [] cell.kind = "str"      -> ParseDateText(cell)
      [] OTHER                  -> <<>>

\* vendor of a row
RowVendor(vendor_raw) ==
    IF vendor_raw \in {NoneValue, ""} THEN NoneValue ELSE Strip(vendor_raw)

\* The row loop without the shipping filter.
RowPayments_noshipping(row) ==
    IF AmountMissing(row.check_amount) THEN <<>>
    ELSE IF AmountValue(row.check_amount) = <<>> THEN <<>>
    ELSE IF ParsedDate(row.bank_date) = <<>> THEN <<>>
    ELSE <<BillPayment(ParentStr(row.parent_child),
                       ParsedDate(row.bank_date)[1],
                       AmountValue(row.check_amount)[1],
                       RowVendor(row.vendor_raw))>>

\* One iteration of `for row in rows`: the payments it appends (none or one).
RowPayments(row) ==
    IF (IF row.comments = NoneValue \/ row.comments = "" THEN ""
        ELSE StripLower(row.comments)) = "shipping charges"
    THEN <<>>
    ELSE IF AmountMissing(row.check_amount) THEN <<>>
    ELSE IF AmountValue(row.check_amount) = <<>> THEN <<>>
    ELSE IF ParsedDate(row.bank_date) = <<>> THEN <<>>
    ELSE <<BillPayment(ParentStr(row.parent_child),
                       ParsedDate(row.bank_date)[1],
                       AmountValue(row.check_amount)[1],
                       RowVendor(row.vendor_raw))>>

RECURSIVE _read_account_debit_sheet(_)
_read_account_debit_sheet(rows) ==
    IF rows = <<>> THEN <<>>
    ELSE RowPayments(Head(rows)) \o _read_account_debit_sheet(Tail(rows))

\* The whole of _read_account_debit_sheet on a workbook that exists and has
\* the sheet: the payments of the data rows, in row order.
ReadSheet ==
    /\ pc = "read_sheet"
    /\ excel_payments' = _read_account_debit_sheet(ws)
    /\ pc' = "sheet_read"
    /\ UNCHANGED <<exc, env_vars, cli_vars, ledger_store, qb_payments,
                   comparison, batch_vars, report_payload, reports_written>>

NextReader == ReadSheet

Text(kind, layout, day) == [kind |-> kind, layout |-> layout, day |-> day]

\* Cells of the id column: empty, "", "P", " P ", "P - C", "P - C - D",
\* "P-C" and "P  - C" (two blanks before the dash: the separator starts at
\* the second).
IdCells ==
    {<<>>, <<<<>>>>, <<<<"P">>>>, <<<<Sp, "P", Sp>>>>,
     <<<<"P", Sp, "-", Sp, "C">>>>,
     <<<<"P", Sp, "-", Sp, "C", Sp, "-", Sp, "D">>>>,
     <<<<"P", "-", "C">>>>,
     <<<<"P", Sp, Sp, "-", Sp, "C">>>>}

\* Cells of a "Child ID" column, which the reader does not look at: "", "C".
ChildCells == {<<>>, <<"C">>, <<Sp>>}

DateCells ==
    {[kind |-> "date", day |-> 1], [kind |-> "datetime", day |-> 2],
     [kind |-> "none"], [kind |-> "number"],
     Text("str", "YYYY-MM-DD", 2), Text("str", "YYYY-MM-DD HH:MM:SS", 2),
     Text("str", "YYYY-MM-DDTHH:MM", 2), Text("str", "MM/DD/YYYY", 2),
     Text("str", "MM/DD/YY", 2), Text("str", "DD.MM.YYYY", 2),
     Text("str", "", 0)}

AmountText(text, spells) == [kind |-> "str", text |-> text, spells |-> spells]

AmountCells ==
    {[kind |-> "number", value |-> 100000], [kind |-> "number", value |-> 0],
     [kind |-> "none"],
     AmountText("", <<>>), AmountText("100.00", <<100000>>),
     AmountText(" 250.5 ", <<250500>>), AmountText("abc", <<>>),
     AmountText("1,000.00", <<>>)}

Row(comments, parent_child, child_id, bank_date, check_amount, vendor_raw) ==
    [comments |-> comments, parent_child |-> parent_child,
     child_id |-> child_id, bank_date |-> bank_date,
     check_amount |-> check_amount, vendor_raw |-> vendor_raw]

GoodDate == [kind |-> "date", day |-> 1]
GoodAmount == [kind |-> "number", value |-> 100000]

\* Rows that differ from a good row in one cell, and every id cell with
\* every child cell.
RawRows ==
    {Row(NoneValue, p, c, GoodDate, GoodAmount, "X") :
        p \in IdCells, c \in ChildCells} \cup
    {Row(m, <<<<"Q">>>>, <<>>, GoodDate, GoodAmount, "X") :
        m \in {"", " ", "Shipping Charges", " shipping charges ",
               "SHIPPING CHARGES", "Shipping", "Freight"}} \cup
    {Row(NoneValue, <<<<"Q">>>>, <<>>, d, GoodAmount, "X") : d \in DateCells} \cup
    {Row(NoneValue, <<<<"Q">>>>, <<>>, GoodDate, a, "X") : a \in AmountCells} \cup
    {Row(NoneValue, <<<<"Q">>>>, <<>>, GoodDate, GoodAmount, v) :
        v \in {NoneValue, "", " ", "Y"}} \cup
    {Row("Shipping Charges", <<<<"Q">>>>, <<>>, [kind |-> "none"],
         [kind |-> "none"], NoneValue)}

InitReader ==
    /\ entry = "_read_account_debit_sheet"
    /\ pc = "read_sheet"
    /\ PipelineIdle
    /\ SessionIdle
    /\ ModelsIdle
    /\ BillsIdle
    /\ runs = 0
    /\ ws \in SeqsUpTo(RawRows, MaxRows)

SpecReader == InitReader /\ [][NextReader]_vars

\* ------------------------------------------- _send_qbxml and _qb_session
\* One action per call on the request processor; a call returns or raises
\* the COM library's exception. CloseConnection is taken to succeed, and a
\* closed connection holds no session.
pipeline_vars == <<skip_qb, float_below, workbook, ledger_bills, cli_vars,
                   ledger_store, run_vars, batch_vars, reader_vars,
                   models_vars, bills_vars, runs>>

Call(method, outcome) == [method |-> method, outcome |-> outcome]

\* _send_qbxml is entered: _require_win32com().
SendStart ==
    /\ pc \in {"send_idle", "send_returned", "send_raised"}
    /\ sends < MaxSends
    /\ sends' = sends + 1
    /\ IF com_available
       THEN exc' = "none" /\ pc' = "open_connection"
       ELSE exc' = "RuntimeError" /\ pc' = "send_raised"
    /\ UNCHANGED <<entry, com_available, pipeline_vars, connections, sessions,
                   com_calls>>

\* session.OpenConnection2("", APP_NAME, 1)
OpenConnection2 ==
    /\ pc = "open_connection"
    /\ \E ok \in BOOLEAN :
         /\ com_calls' = Append(com_calls,
                                Call("OpenConnection2", IF ok THEN "ok" ELSE "raised"))
         /\ IF ok
            THEN /\ connections' = connections + 1
                 /\ pc' = "begin_session"
                 /\ UNCHANGED exc
            ELSE /\ exc' = "com_error"
                 /\ pc' = "send_raised"
                 /\ UNCHANGED connections
    /\ UNCHANGED <<entry, com_available, pipeline_vars, sessions, sends>>

\* BeginSession with the try statement opened before it: its exception
\* goes through `finally: session.CloseConnection()`.
BeginSession_guarded ==
    /\ pc = "begin_session"
    /\ \E ok \in BOOLEAN :
         /\ com_calls' = Append(com_calls,
                                Call("BeginSession", IF ok THEN "ok" ELSE "raised"))
         /\ IF ok
            THEN /\ sessions' = sessions + 1
                 /\ pc' = "process_request"
                 /\ UNCHANGED exc
            ELSE /\ exc' = "com_error"
                 /\ pc' = "close_connection"
                 /\ UNCHANGED sessions
    /\ UNCHANGED <<entry, com_available, pipeline_vars, connections, sends>>

\* ticket = session.BeginSession("", 0): the call stands before the try
\* statement, so its exception leaves _qb_session at once.
BeginSession ==
    /\ pc = "begin_session"
    /\ \E ok \in BOOLEAN :
         /\ com_calls' = Append(com_calls,
                                Call("BeginSession", IF ok THEN "ok" ELSE "raised"))
         /\ IF ok
            THEN /\ sessions' = sessions + 1
                 /\ pc' = "process_request"
                 /\ UNCHANGED exc
            ELSE /\ exc' = "com_error"
                 /\ pc' = "send_raised"
                 /\ UNCHANGED sessions
    /\ UNCHANGED <<entry, com_available, pipeline_vars, connections, sends>>

\* raw_response = session.ProcessRequest(ticket, qbxml); an exception is
\* printed and raised again, into the finally clauses of _qb_session.
ProcessRequest ==
    /\ pc = "process_request"
    /\ \E ok \in BOOLEAN :
         /\ com_calls' = Append(com_calls,
                                Call("ProcessRequest", IF ok THEN "ok" ELSE "raised"))
         /\ exc' = IF ok THEN exc ELSE "com_error"
    /\ pc' = "end_session"
    /\ UNCHANGED <<entry, com_available, pipeline_vars, connections, sessions,
                   sends>>

\* finally: try: session.EndSession(ticket)
EndSession ==
    /\ pc = "end_session"
    /\ \E ok \in BOOLEAN :
         /\ com_calls' = Append(com_calls,
                                Call("EndSession", IF ok THEN "ok" ELSE "raised"))
         /\ IF ok
            THEN sessions' = sessions - 1 /\ UNCHANGED exc
            ELSE exc' = "com_error" /\ UNCHANGED sessions
    /\ pc' = "close_connection"
    /\ UNCHANGED <<entry, com_available, pipeline_vars, connections, sends>>

\* finally: session.CloseConnection(); then the pending exception goes on,
\* or the with statement is left.
CloseConnection ==
    /\ pc = "close_connection"
    /\ com_calls' = Append(com_calls, Call("CloseConnection", "ok"))
    /\ connections' = connections - 1
    /\ sessions' = 0
    /\ pc' = IF exc = "none" THEN "parse_response" ELSE "send_raised"
    /\ UNCHANGED <<entry, exc, com_available, pipeline_vars, sends>>

\* return _parse_response(raw_response)
ParseResponse ==
    /\ pc = "parse_response"
    /\ \E accepted \in BOOLEAN :
         IF accepted
         THEN pc' = "send_returned" /\ UNCHANGED exc
         ELSE pc' = "send_raised" /\ exc' = "RuntimeError"
    /\ UNCHANGED <<entry, com_available, pipeline_vars, connections, sessions,
                   com_calls, sends>>

NextSession ==
    \/ SendStart
    \/ OpenConnection2
    \/ BeginSession
    \/ ProcessRequest
    \/ EndSession
    \/ CloseConnection
    \/ ParseResponse

InitSession ==
    /\ entry = "_send_qbxml"
    /\ pc = "send_idle"
    /\ PipelineIdle
    /\ ReaderIdle
    /\ SessionIdle
    /\ ModelsIdle
    /\ BillsIdle
    /\ runs = 0

SpecSession == InitSession /\ [][NextSession]_vars

\* ------------------------------------------------- models.BillPayment(...)
\* A field value is a cell as in the worksheet: [kind |-> "date", day],
\* [kind |-> "datetime", day], a text, a number, or [kind |-> "none"].
\* date.fromisoformat(s[:10]) and the strptime formats of __post_init__.
PostInitIsoPrefixed == {"YYYY-MM-DD", "YYYY-MM-DD HH:MM:SS", "YYYY-MM-DDTHH:MM"}
PostInitFormats == {"YYYY-MM-DD", "YYYY-MM-DD HH:MM:SS", "MM/DD/YYYY", "MM/DD/YY"}

\* The date normalised the other way round: a datetime becomes its ISO
\* text, a text is parsed.
NormalisedDate_isotext(value) ==
    CASE value.kind = "datetime" -> <<Text("str", "YYYY-MM-DD", value.day)>>
      [] value.kind = "str" ->
            IF value.layout \in PostInitIsoPrefixed \cup PostInitFormats
            THEN <<[kind |-> "date", day |-> value.day]>>
            ELSE <<>>
      [] OTHER -> <<value>>

\* self.date after __post_init__: <<>> when ValueError is raised. A
\* datetime becomes its date, a text the date it parses to, any other value
\* stays.
NormalisedDate(value) ==
    CASE value.kind = "datetime" -> <<[kind |-> "date", day |-> value.day]>>
      [] value.kind = "str" ->
            IF value.layout \in PostInitIsoPrefixed
            THEN <<[kind |-> "date", day |-> value.day]>>
            ELSE IF value.layout \in PostInitFormats
            THEN <<[kind |-> "date", day |-> value.day]>>
            ELSE <<>>
      [] OTHER -> <<value>>

\* self.amount_to_pay after __post_init__: a text becomes
\* float(text.strip()), <<>> when that raises ValueError; any other value
\* stays.
NormalisedAmount(value) ==
    IF value.kind = "str"
    THEN IF value.spells = <<>> THEN <<>>
         ELSE <<[kind |-> "number", value |-> value.spells[1]]>>
    ELSE <<value>>

\* BillPayment(**args): <<>> when __post_init__ raises, else the object.
__post_init__(args) ==
    IF NormalisedDate(args.date) = <<>> \/ NormalisedAmount(args.amount_to_pay) = <<>>
    THEN <<>>
    ELSE <<[args EXCEPT !.date = NormalisedDate(args.date)[1],
                        !.amount_to_pay = NormalisedAmount(args.amount_to_pay)[1]]>>

\* bp = BillPayment(id=..., date=..., amount_to_pay=..., vendor=..., source=...)
Construct ==
    /\ pc = "construct"
    /\ bp' = __post_init__(ctor_args)
    /\ IF bp' = <<>>
       THEN exc' = "ValueError" /\ pc' = "construct_raised"
       ELSE pc' = "constructed" /\ UNCHANGED exc
    /\ UNCHANGED <<base_env, cli_vars, ledger_store, run_vars, batch_vars,
                   reader_vars, session_vars, bills_vars, runs, ctor_args,
                   bp_again>>

\* BillPayment(id=bp.id, date=bp.date, amount_to_pay=bp.amount_to_pay,
\*             vendor=bp.vendor, source=bp.source)
Reconstruct ==
    /\ pc = "constructed"
    /\ bp_again' = __post_init__(bp[1])
    /\ IF bp_again' = <<>>
       THEN exc' = "ValueError" /\ pc' = "construct_raised"
       ELSE pc' = "reconstructed" /\ UNCHANGED exc
    /\ UNCHANGED <<base_env, cli_vars, ledger_store, run_vars, batch_vars,
                   reader_vars, session_vars, bills_vars, runs, ctor_args, bp>>

NextModels == Construct \/ Reconstruct

CtorArgs ==
    {[id |-> 1, date |-> d, amount_to_pay |-> a, vendor |-> v, source |-> s] :
        d \in DateCells, a \in AmountCells, v \in {NoneValue, "X"},
        s \in {"excel", "quickbooks"}}

InitModels ==
    /\ entry = "BillPayment"
    /\ pc = "construct"
    /\ PipelineIdle
    /\ ReaderIdle
    /\ SessionIdle
    /\ BillsIdle
    /\ runs = 0
    /\ ctor_args \in CtorArgs
    /\ bp = <<>>
    /\ bp_again = <<>>

SpecModels == InitModels /\ [][NextModels]_vars

\* --------------------------------------- compare.compare_bill_payments
\* The bill-level comparison. A bill from Excel is a dict with the texts
\* under "Parent ID" and "Child ID" and the cells under "Payment Amount",
\* "Check Amount", "Payment Date" and "Check Date"; a QuickBooks bill has
\* "TxnID", "RefNumber" and "vendor_name"; a QuickBooks payment has "TxnID",
\* "amount", "TotalAmount", "payment_date" and "TxnDate". An absent key and
\* None are both [kind |-> "none"], an absent text is <<>>.
NoCell == [kind |-> "none"]
Number(value) == [kind |-> "number", value |-> value]

\* bool(value): None, 0.0 and "" are false.
Truthy(cell) ==
    IF cell.kind = "none" THEN FALSE
    ELSE IF cell.kind = "number" THEN cell.value # 0
    ELSE IF cell.kind = "str"
    THEN IF "text" \in DOMAIN cell THEN cell.text # "" ELSE cell.layout # ""
    ELSE TRUE

\* `a or b`
Or(a, b) == IF Truthy(a) THEN a ELSE b

\* compare.normalize_amount: None is 0.0, a number itself, a text the value
\* float() reads from it and 0.0 when float() raises ValueError.
normalize_amount(value) ==
    IF value.kind = "none" THEN 0
    ELSE IF value.kind = "number" THEN value.value
    ELSE IF value.kind = "str" /\ "spells" \in DOMAIN value /\ value.spells # <<>>
    THEN value.spells[1]
    ELSE 0

\* str(value) of a date value: a date prints as YYYY-MM-DD, a datetime as
\* YYYY-MM-DD HH:MM:SS, a text is itself, None prints as "None".
str(value) ==
    IF value.kind = "date" THEN [layout |-> "YYYY-MM-DD", day |-> value.day]
    ELSE IF value.kind = "datetime"
    THEN [layout |-> "YYYY-MM-DD HH:MM:SS", day |-> value.day]
    ELSE IF value.kind = "str" THEN [layout |-> value.layout, day |-> value.day]
    ELSE [layout |-> "None", day |-> 0]

\* abs(excel_amount - qb_amount) <= amount_tolerance on floats: as for the
\* strict test, the difference of two amounts one cent apart falls on either
\* side of the float 0.01 (abs(100.0 - 100.01) is 0.010000000000005116,
\* abs(300.01 - 300.0) is 0.009999999999990905).
FloatWithinTolerance(a, b) ==
    IF Abs(a - b) = AmountTolerance THEN float_below[Min(a, b)]
    ELSE Abs(a - b) <= AmountTolerance

\* A later item of a dict comprehension replaces an earlier one of the same
\* key: the last position of the Excel bills with this id, and of the
\* QuickBooks bills with this TxnID.
LastBillAt(excel, id) ==
    CHOOSE k \in DOMAIN excel :
        /\ get_bill_id(excel[k]) = id
        /\ \A j \in DOMAIN excel : get_bill_id(excel[j]) = id => j <= k

LastTxnAt(bills, txn) ==
    CHOOSE k \in DOMAIN bills :
        /\ bills[k].TxnID = txn
        /\ \A j \in DOMAIN bills : bills[j].TxnID = txn => j <= k

\* excel_by_id: the bills with a non-empty id, the last one of an id kept.
excel_by_id(excel) ==
    [id \in {get_bill_id(excel[k]) : k \in DOMAIN excel} \ {<<>>} |->
        excel[LastBillAt(excel, id)]]

\* qb_by_txn: the bills with a TxnID, the last one of a TxnID kept.
qb_by_txn(bills) ==
    [txn \in {bills[k].TxnID : k \in DOMAIN bills} \ {<<>>} |->
        bills[LastTxnAt(bills, txn)]]

\* qb_payments_by_txn: the payments with a TxnID, listed per TxnID in order.
qb_payments_by_txn(pays) ==
    [txn \in {pays[k].TxnID : k \in DOMAIN pays} \ {<<>>} |->
        SelectSeq(pays, LAMBDA p : p.TxnID = txn)]

\* The keys of qb_by_txn in the order of the dict: by first insertion.
RECURSIVE TxnOrder(_)
TxnOrder(bills) ==
    IF bills = <<>> THEN <<>>
    ELSE LET front == TxnOrder(SubSeq(bills, 1, Len(bills) - 1))
             txn   == bills[Len(bills)].TxnID
         IN  IF txn = <<>> \/ \E k \in DOMAIN front : front[k] = txn
             THEN front ELSE Append(front, txn)

\* The orders in which a set can be iterated over.
Orders(S) ==
    {s \in [1..Cardinality(S) -> S] :
        \A i, j \in DOMAIN s : s[i] = s[j] => i = j}

excel_amount(bill) == normalize_amount(Or(bill.payment_amount, bill.check_amount))
excel_date(bill) == Or(bill.payment_date, bill.check_date)
qb_amount(payment) == normalize_amount(Or(payment.amount, payment.TotalAmount))
qb_date(payment) == Or(payment.payment_date, payment.TxnDate)

\* The dicts listed under "qb_payments" of a conflict.
QbPaymentDicts(pays) ==
    [k \in DOMAIN pays |-> [amount |-> qb_amount(pays[k]), date |-> qb_date(pays[k])]]

\* compare_bill_payments(excel_bills, qb_bills, qb_payments), the shared
\* ids being visited in `order`: <<>> when a BillPayment(...) raises
\* ValueError, else <<results>>.
compare_bill_payments(excel, bills, pays, order) ==
    LET by_id == excel_by_id(excel)
        by_txn == qb_by_txn(bills)
        pays_by_txn == qb_payments_by_txn(pays)
        qb_bill_payments(id) ==
            IF id \in DOMAIN pays_by_txn THEN pays_by_txn[id] ELSE <<>>
        matched(id) ==
            \E k \in DOMAIN qb_bill_payments(id) :
                /\ FloatWithinTolerance(excel_amount(by_id[id]),
                                        qb_amount(qb_bill_payments(id)[k]))
                /\ str(excel_date(by_id[id])) = str(qb_date(qb_bill_payments(id)[k]))
        branch(id) ==
            IF excel_amount(by_id[id]) = 0 THEN "continue"
            ELSE IF qb_bill_payments(id) = <<>> THEN "payments_to_add"
            ELSE IF matched(id) THEN "same_records"
            ELSE "conflicts"
        payment(id) ==
            __post_init__([id |-> id, date |-> excel_date(by_id[id]),
                           amount_to_pay |-> Number(excel_amount(by_id[id])),
                           vendor |-> by_txn[id].vendor_name,
                           source |-> "excel"])
        mismatch(id) ==
            [bill_id |-> id, txn_id |-> by_txn[id].TxnID,
             reason |-> "payment_mismatch",
             excel_payment |-> <<[amount |-> excel_amount(by_id[id]),
                                  date |-> excel_date(by_id[id])]>>,
             qb_payments |-> QbPaymentDicts(qb_bill_payments(id))]
        qb_only(txn) ==
            [bill_id |-> by_txn[txn].RefNumber, txn_id |-> txn,
             reason |-> "payment_in_qb_only",
             excel_payment |-> <<>>,
             qb_payments |-> QbPaymentDicts(pays_by_txn[txn])]
        visited(name) == SelectSeq(order, LAMBDA id : branch(id) = name)
        unmatched == SelectSeq(TxnOrder(bills),
                        LAMBDA txn : /\ by_txn[txn].RefNumber \notin DOMAIN by_id
                                     /\ txn \in DOMAIN pays_by_txn)
        raised == \E k \in DOMAIN order :
                    /\ branch(order[k]) \in {"payments_to_add", "same_records"}
                    /\ payment(order[k]) = <<>>
    IN  IF raised THEN <<>>
        ELSE <<[same_records |->
                    [k \in DOMAIN visited("same_records") |->
                        payment(visited("same_records")[k])[1]],
                conflicts |->
                    [k \in DOMAIN visited("conflicts") |->
                        mismatch(visited("conflicts")[k])]
                    \o [k \in DOMAIN unmatched |-> qb_only(unmatched[k])],
                payments_to_add |->
                    [k \in DOMAIN visited("payments_to_add") |->
                        payment(visited("payments_to_add")[k])[1]]]>>

\* results = compare_bill_payments(excel_bills, qb_bills, qb_payments). The
\* first loop runs over the intersection of two key sets, whose iteration
\* order is not fixed.
CompareBills ==
    /\ pc = "compare_bills"
    /\ \E order \in Orders(DOMAIN excel_by_id(excel_bills)
                             \cap DOMAIN qb_by_txn(qb_bills)) :
         LET returned == compare_bill_payments(excel_bills, qb_bills,
                                               qb_payments, order)
         IN  IF returned = <<>>
             THEN exc' = "ValueError" /\ pc' = "compare_raised" /\ UNCHANGED results
             ELSE results' = returned /\ pc' = "compared" /\ UNCHANGED exc
    /\ UNCHANGED <<base_env, cli_vars, ledger_store, run_vars, batch_vars,
                   reader_vars, session_vars, models_vars, runs, excel_bills,
                   qb_bills>>

NextBills == CompareBills

ExcelBill(parent_id, child_id, payment_amount, check_amount, payment_date, check_date) ==
    [parent_id |-> parent_id, child_id |-> child_id,
     payment_amount |-> payment_amount, check_amount |-> check_amount,
     payment_date |-> payment_date, check_date |-> check_date]

QBBill(txn_id, ref_number, vendor_name) ==
    [TxnID |-> txn_id, RefNumber |-> ref_number, vendor_name |-> vendor_name]

QBPayment(txn_id, amount, total_amount, payment_date, txn_date) ==
    [TxnID |-> txn_id, amount |-> amount, TotalAmount |-> total_amount,
     payment_date |-> payment_date, TxnDate |-> txn_date]

Day(day) == [kind |-> "date", day |-> day]
IsoText(day) == Text("str", "YYYY-MM-DD", day)

\* Bills "A" and "B" from Excel: paid 100.00 and 100.01, the amount and date
\* under either key, a zero amount, no amount, an amount as text, the date
\* as a date, a datetime, an ISO text and a text no format parses, and a
\* bill whose id is blank.
ExcelBillRows ==
    {ExcelBill(<<Sp, "A">>, <<>>, Number(100000), NoCell, Day(1), NoCell),
     ExcelBill(<<"A">>, <<>>, NoCell, Number(100010), NoCell, IsoText(1)),
     ExcelBill(<<"A">>, <<>>, Number(0), NoCell, Day(1), NoCell),
     ExcelBill(<<"B">>, <<>>, NoCell, NoCell, Day(1), NoCell),
     ExcelBill(<<"B">>, <<>>, AmountText("100.00", <<100000>>), NoCell,
               [kind |-> "datetime", day |-> 1], NoCell),
     ExcelBill(<<"B">>, <<>>, Number(100000), NoCell,
               Text("str", "DD.MM.YYYY", 1), NoCell),
     ExcelBill(<<Sp>>, <<>>, Number(100000), NoCell, Day(1), NoCell)}

\* QuickBooks bills "A" (RefNumber "A") and "B" (no RefNumber), and a bill
\* without a TxnID.
QBBillRows ==
    {QBBill(<<"A">>, <<"A">>, "X"), QBBill(<<"B">>, <<>>, "Y"),
     QBBill(<<>>, <<"B">>, "Y")}

\* QuickBooks payments of bill "A": 100.00 and 100.01 on day 1, 100.00 on
\* day 2; and of bill "B": 100.00 on day 1.
QBPaymentRows ==
    {QBPayment(<<"A">>, Number(100000), NoCell, IsoText(1), NoCell),
     QBPayment(<<"A">>, NoCell, Number(100010), NoCell, IsoText(1)),
     QBPayment(<<"A">>, Number(100000), NoCell, IsoText(2), NoCell),
     QBPayment(<<"B">>, Number(100000), NoCell, IsoText(1), NoCell)}

InitBills ==
    /\ entry = "compare_bill_payments"
    /\ pc = "compare_bills"
    /\ exc = "none"
    /\ skip_qb = FALSE
    /\ result = <<>>
    /\ exit_code = <<>>
    /\ com_available = TRUE
    /\ workbook = [exists |-> TRUE, rows |-> <<>>]
    /\ ledger_store = <<>>
    /\ ledger_bills = [v \in {"X", "Y"} |-> <<>>]
    /\ excel_payments = <<>>
    /\ excel_bills \in SeqsUpTo(ExcelBillRows, MaxExcel)
    /\ qb_bills \in SeqsUpTo(QBBillRows, MaxBills)
    /\ qb_payments \in SeqsUpTo(QBPaymentRows, MaxQB)
    /\ float_below \in
         FloatOutcomes({excel_amount(excel_bills[k]) : k \in DOMAIN excel_bills},
                       {qb_amount(qb_payments[k]) : k \in DOMAIN qb_payments})
    /\ results = <<>>
    /\ comparison = EmptyComparison
    /\ payments = <<>>
    /\ idx = 0
    /\ requests = <<>>
    /\ planned = <<>>
    /\ sent = <<>>
    /\ response = <<>>
    /\ added_payments = <<>>
    /\ report_payload = InitialPayload
    /\ reports_written = 0
    /\ ReaderIdle
    /\ SessionIdle
    /\ ModelsIdle
    /\ runs = 0

SpecBills == InitBills /\ [][NextBills]_vars

\* ================================================================= claims
HasBill(it) == it.bill # <<>>

\* The iterations that selected a bill; requests[k] was built by Selected[k].
Selected == SelectSeq(planned, HasBill)

Least(a, b) == IF a <= b THEN a ELSE b

\* ----------------------------------------------------------------- C1
\* C1 as stated: the PaymentAmount of every request equals
\* min(candidate.amount_to_pay, amount_due of the chosen bill).
C1_PaymentAmountIsMin ==
    /\ Len(requests) = Len(Selected)
    /\ \A k \in DOMAIN requests :
         requests[k].PaymentAmount =
            Least(Selected[k].payment.amount_to_pay,
                  Selected[k].bill[1].amount_due)

\* C1 amended: the PaymentAmount of every request is
\* min(candidate.amount_to_pay, amount_due of the chosen bill) rounded to two
\* decimals, and it never exceeds that amount_due (a whole number of cents);
\* the batch sent is made of these requests.
C1_PaymentAmountIsRoundedMin ==
    /\ Len(requests) = Len(Selected)
    /\ \A k \in DOMAIN requests :
         LET due == Selected[k].bill[1].amount_due
             m   == Least(Selected[k].payment.amount_to_pay, due)
             amt == requests[k].PaymentAmount
         IN  /\ amt % 10 = 0
             /\ Abs(amt - m) <= 5
             /\ amt <= due
    /\ \A b \in DOMAIN sent : sent[b] = requests

\* A candidate of 500.00 against a chosen bill of 300.00 was sent as 300.00.
C1_Witness ==
    /\ pc = "batch_returned"
    /\ sent # <<>>
    /\ \E k \in DOMAIN Selected :
         /\ Selected[k].payment.amount_to_pay = 500000
         /\ Selected[k].bill[1].amount_due = 300000
         /\ sent[1][k].PaymentAmount = 300000

\* ----------------------------------------------------------------- C2
StrictlyAscending(s) == \A i, j \in DOMAIN s : i < j => s[i].id < s[j].id

\* s holds, for exactly the ids of S, one payment of side each, tagged tag.
HoldsExactly(s, S, side, tag) ==
    /\ IdsOf(s) = S
    /\ \A k \in DOMAIN s :
         /\ s[k].source = tag
         /\ \E j \in DOMAIN side : s[k] = [side[j] EXCEPT !.source = tag]

\* C2: excel_only holds exactly the ids of the Excel side that the QuickBooks
\* side lacks, qb_only exactly the ids of the QuickBooks side that the Excel
\* side lacks, both in ascending id order whatever the input order.
C2_OnlyListsAreSortedDifferences ==
    pc = "reconciled" =>
        /\ HoldsExactly(comparison.excel_only,
                        IdsOf(excel_payments) \ IdsOf(qb_payments),
                        excel_payments, "excel")
        /\ HoldsExactly(comparison.qb_only,
                        IdsOf(qb_payments) \ IdsOf(excel_payments),
                        qb_payments, "quickbooks")
        /\ StrictlyAscending(comparison.excel_only)
        /\ StrictlyAscending(comparison.qb_only)

\* Two Excel-only payments given in descending id order, and a
\* QuickBooks-only payment.
C2_Witness ==
    /\ pc = "reconciled"
    /\ Len(excel_payments) = 2
    /\ excel_payments[1].id > excel_payments[2].id
    /\ Len(comparison.excel_only) = 2
    /\ Len(comparison.qb_only) >= 1

\* ----------------------------------------------------------------- C3
BothIds == IdsOf(excel_payments) \cap IdsOf(qb_payments)

\* Amounts within the one-cent tolerance (0.01 included) and the same date.
Matched(id) ==
    LET e == ById(excel_payments, id)
        q == ById(qb_payments, id)
    IN  /\ Abs(e.amount_to_pay - q.amount_to_pay) <= 10
        /\ e.date = q.date

ConflictsFor(id) ==
    {k \in DOMAIN comparison.conflicts : comparison.conflicts[k].record_id = id}

\* C3: an id on both sides is matched iff the amounts are within the
\* tolerance and the dates are equal, whatever the vendors; otherwise it has
\* exactly one data_conflict with both sides' amount, date and vendor; so
\* same_records plus the number of data_conflicts is the number of shared ids.
C3_MatchedOrOneConflict ==
    pc = "reconciled" =>
        /\ \A id \in BothIds :
             IF Matched(id) THEN ConflictsFor(id) = {}
             ELSE /\ Cardinality(ConflictsFor(id)) = 1
                  /\ \A k \in ConflictsFor(id) :
                       LET c == comparison.conflicts[k]
                           e == ById(excel_payments, id)
                           q == ById(qb_payments, id)
                       IN  /\ c.reason = "data_conflict"
                           /\ c.excel_amount = e.amount_to_pay
                           /\ c.qb_amount = q.amount_to_pay
                           /\ c.excel_date = e.date /\ c.qb_date = q.date
                           /\ c.excel_vendor = e.vendor /\ c.qb_vendor = q.vendor
        /\ report_payload.same_records =
              Cardinality({id \in BothIds : Matched(id)})
        /\ report_payload.same_records + Len(comparison.conflicts) =
              Cardinality(BothIds)

\* ----------------------------------------------------------------- C4
\* C4: for one shared id with equal dates, amounts 0.01 apart are matched
\* (counted in same_records, no conflict) and amounts 0.02 apart are a
\* data_conflict (not counted).
C4_ToleranceBoundary ==
    (pc = "reconciled" /\ Cardinality(BothIds) = 1) =>
        \A id \in BothIds :
            LET e == ById(excel_payments, id)
                q == ById(qb_payments, id)
                d == Abs(e.amount_to_pay - q.amount_to_pay)
            IN  e.date = q.date =>
                  /\ d = 10 => /\ report_payload.same_records = 1
                               /\ comparison.conflicts = <<>>
                  /\ d = 20 => /\ report_payload.same_records = 0
                               /\ Len(comparison.conflicts) = 1

\* ----------------------------------------------------------------- C5
BatchRejected == sent # <<>> /\ response[1].statusCode \notin {0, 1}

\* C5: when QuickBooks cannot be reached or rejects the whole batch,
\* add_bill_payments_batch returns an empty list and does not raise.
C5_FailureReturnsEmpty ==
    /\ pc # "raised"
    /\ (pc = "batch_returned" /\ BatchRejected) => added_payments = <<>>

\* ----------------------------------------------------------------- C6
IsCreated(r) == r.statusCode = 0
IsRejected(r) == r.statusCode = 3120

\* C6: when QuickBooks creates some payments of the batch and rejects
\* others, the result is the created payments, one per created check in
\* response order, wherever the rejected ones stand in the batch.
C6_PartialBatchReturnsCreated ==
    (/\ pc = "batch_returned"
     /\ sent # <<>>
     /\ \E k \in DOMAIN response : IsCreated(response[k])
     /\ \E k \in DOMAIN response : IsRejected(response[k])) =>
        LET created == SelectSeq(response, IsCreated)
        IN  /\ Len(added_payments) = Len(created)
            /\ \A k \in DOMAIN created :
                 added_payments[k].id = created[k].ret[1].Memo

\* ----------------------------------------------------------------- C7
\* add_bill_payments_batch was entered and the submission failed: a lookup
\* or the batch raised, or QuickBooks rejected the batch.
WriteBackFailed == (exc = "com_error" /\ idx >= 1) \/ BatchRejected

\* C7: when the write-back fails the report has no added records, status
\* "success", and the conflicts and same_records of the comparison; status
\* "error" only comes from the reading or the comparison.
C7_WriteBackFailureKeepsSuccess ==
    pc = "done" =>
        /\ WriteBackFailed =>
             /\ report_payload.status = "success"
             /\ report_payload.added_records = <<>>
             /\ report_payload.conflicts =
                   comparison.conflicts \o
                   [k \in DOMAIN comparison.qb_only |->
                      _qb_only_conflict(comparison.qb_only[k])]
             /\ report_payload.same_records =
                   _count_matching_payments(excel_payments, qb_payments)
        /\ report_payload.status = "error" => idx = 0

\* ----------------------------------------------------------------- C8
\* Positions of bills whose amount_due is less than a cent, and at most a
\* cent, from the amount.
Below(bills, amount) ==
    {j \in DOMAIN bills : Abs(bills[j].amount_due - amount) < 10}
AtMost(bills, amount) ==
    {j \in DOMAIN bills : Abs(bills[j].amount_due - amount) <= 10}

BlankVendor(v) == v \in {NoneValue, "", " ", "  "}

\* C9: a candidate with a None, empty or blank vendor is skipped without a
\* lookup, one whose lookup returns no open bill is skipped too; neither gets
\* a request nor raises, the loop goes on to every other candidate, each
\* candidate with a vendor and open bills gets its request, and with no
\* request at all nothing is sent and the result is empty.
C9_SkippedCandidates ==
    /\ \A j \in DOMAIN planned :
         /\ planned[j].payment = payments[j]
         /\ BlankVendor(payments[j].vendor) =>
               ~planned[j].looked_up /\ planned[j].bill = <<>>
         /\ planned[j].unpaid_bills = <<>> => planned[j].bill = <<>>
         /\ (~BlankVendor(payments[j].vendor) /\ planned[j].unpaid_bills # <<>>)
               => planned[j].bill # <<>>
    /\ Len(requests) = Len(Selected)
    /\ \A k \in DOMAIN requests : requests[k].Memo = Selected[k].payment.id
    /\ pc = "plan" => Len(planned) = idx - 1
    /\ (pc = "raised" /\ idx \in DOMAIN payments) =>
          ~BlankVendor(payments[idx].vendor)
    /\ (pc = "batch_returned" /\ payments # <<>>) =>
          Len(planned) = Len(payments)
    /\ (pc = "batch_returned" /\ requests = <<>>) =>
          sent = <<>> /\ added_payments = <<>>

\* A candidate with a blank vendor was skipped without a lookup, the next
\* one was looked up and skipped for want of an open bill; nothing was sent
\* and the result is empty.
C9_Witness ==
    /\ pc = "batch_returned"
    /\ Len(payments) = 2
    /\ payments[1].vendor = " "
    /\ ~planned[1].looked_up
    /\ planned[2].looked_up
    /\ planned[2].unpaid_bills = <<>>
    /\ UnpaidBills(ledger_bills[payments[2].vendor]) = <<>>
    /\ sent = <<>>
    /\ added_payments = <<>>

ReportedIds ==
    {report_payload.added_records[k].record_id :
        k \in DOMAIN report_payload.added_records} \cup
    {report_payload.conflicts[k].record_id :
        k \in DOMAIN report_payload.conflicts}

\* C11: the report of a successful run shows every write-back candidate
\* (the excel_only payments), also one that was not submitted, beside the
\* payments added.
C11_CandidatesVisibleInReport ==
    (pc = "done" /\ report_payload.status = "success") =>
        \A k \in DOMAIN comparison.excel_only :
            comparison.excel_only[k].id \in ReportedIds

\* ---------------------------------------------------------------- C12
\* The report's conflicts are the comparison's conflicts, in order, then one
\* payment_only_in_quickbooks conflict per qb_only payment, in order, with
\* the QuickBooks side's amount, date and vendor and no Excel side.
ReportConflictsAsClaimed ==
    LET dc == comparison.conflicts
        lo == comparison.qb_only
        rc == report_payload.conflicts
    IN  /\ Len(rc) = Len(dc) + Len(lo)
        /\ \A k \in DOMAIN dc :
              rc[k] = dc[k] /\ rc[k].reason = "data_conflict"
        /\ \A k \in DOMAIN lo :
              LET c == rc[Len(dc) + k]
              IN  /\ c.record_id = lo[k].id
                  /\ c.reason = "payment_only_in_quickbooks"
                  /\ c.qb_amount = lo[k].amount_to_pay
                  /\ c.qb_date = lo[k].date
                  /\ c.qb_vendor = lo[k].vendor
                  /\ c.excel_amount = NoneValue
                  /\ c.excel_date = NoneValue
                  /\ c.excel_vendor = NoneValue

\* The report's same_records is the matched count of the comparison: the
\* ids on both sides with equal dates and amounts within the tolerance.
MatchedCountPassesThrough ==
    report_payload.same_records = Cardinality({id \in BothIds : Matched(id)})

\* C12: in the report of a successful run the conflicts list is the
\* comparison's data conflicts followed by one ledger-only conflict per
\* qb_only payment, and the matched count passes through unchanged.
C12_ReportConflictsAndMatchedCount ==
    (pc = "done" /\ report_payload.status = "success") =>
        ReportConflictsAsClaimed /\ MatchedCountPassesThrough

\* ---------------------------------------------------------------- C13
\* C13: once the try statement of run_pay_bills is left, the status is
\* "error" and the error a message exactly when a step raised, otherwise the
\* status is "success" and the error null; with status "error" the added
\* records, the conflicts and same_records hold nothing computed (they are
\* as initialised), so nothing computed after the failing step.
C13_ErrorStatusIffRaised ==
    pc \in {"write_report", "done"} =>
        /\ (report_payload.status = "error") <=> (exc # "none")
        /\ report_payload.status \in {"success", "error"}
        /\ report_payload.status = "error" =>
              /\ report_payload.error = exc
              /\ report_payload.error # NoneValue
              /\ report_payload.added_records = <<>>
              /\ report_payload.conflicts = <<>>
              /\ report_payload.same_records = 0
        /\ report_payload.status = "success" =>
              report_payload.error = NoneValue

\* The ledger read raised after the workbook was read: the report has status
\* "error", the message, and nothing else.
C13_Witness ==
    /\ pc = "done"
    /\ excel_payments # <<>>
    /\ exc = "RuntimeError"
    /\ report_payload.status = "error"
    /\ report_payload.error = "RuntimeError"
    /\ report_payload.added_records = <<>>

MemosOf(batch) == {batch[k].Memo : k \in DOMAIN batch}

\* run_pay_bills or main() has ended by returning.
Returned == pc \in {"done", "main_returned"}

C16_MainReturnsZeroOrOne ==
    /\ pc # "escaped"
    /\ pc = "main_returned" =>
          /\ exit_code \in {<<0>>, <<1>>}
          /\ (exc # "none" \/ BatchRejected) => exit_code = <<1>>
          /\ (exc = "none" /\ ~BatchRejected) => exit_code = <<0>>

\* ---------------------------------------------------------------- C17
\* C17: with --skip-qb and a readable workbook, main() fetches nothing from
\* the ledger, compares the workbook's records with an empty ledger dataset,
\* reaches the summary and returns 0.
C17_SkipQBReturnsZero ==
    (skip_qb /\ workbook.exists) =>
        /\ pc # "escaped"
        /\ qb_payments = <<>>
        /\ pc \in {"main_summary", "main_returned"} =>
              /\ result # <<>>
              /\ sent = <<>>
        /\ pc = "main_returned" => exit_code = <<0>>

\* ---------------------------------------------------------------- C18
\* C18: comparing a collection with itself counts every distinct id as
\* matched and yields no Excel-only payment, no QuickBooks-only payment and
\* no conflict.
C18_SelfComparisonMatchesAll ==
    (pc = "reconciled" /\ excel_payments = qb_payments) =>
        /\ report_payload.same_records = Cardinality(IdsOf(excel_payments))
        /\ comparison.excel_only = <<>>
        /\ comparison.qb_only = <<>>
        /\ comparison.conflicts = <<>>

\* A collection holding one id twice, with two amounts, compared with
\* itself: one matched id.
C18_Witness ==
    /\ pc = "reconciled"
    /\ excel_payments = qb_payments
    /\ Len(excel_payments) = 2
    /\ excel_payments[1].id = excel_payments[2].id
    /\ excel_payments[1].amount_to_pay # excel_payments[2].amount_to_pay
    /\ report_payload.same_records = 1

\* ---------------------------------------------------------------- C19
\* C19: when the two sides share no id the comparison has no conflict and
\* the matched count is 0; with both sides empty every section is empty.
C19_DisjointNoConflictNoMatch ==
    pc = "reconciled" =>
        /\ BothIds = {} =>
              /\ comparison.conflicts = <<>>
              /\ report_payload.same_records = 0
        /\ (excel_payments = <<>> /\ qb_payments = <<>>) =>
              /\ comparison = EmptyComparison
              /\ report_payload.same_records = 0

\* Two sides with different ids but the same amount and date: both are
\* reported on their own side, nothing is matched.
C19_Witness ==
    /\ pc = "reconciled"
    /\ excel_payments # <<>>
    /\ qb_payments # <<>>
    /\ BothIds = {}
    /\ \E k \in DOMAIN excel_payments : \E j \in DOMAIN qb_payments :
          /\ excel_payments[k].amount_to_pay = qb_payments[j].amount_to_pay
          /\ excel_payments[k].date = qb_payments[j].date
    /\ report_payload.same_records = 0
    /\ comparison.conflicts = <<>>
    /\ comparison.excel_only # <<>>
    /\ comparison.qb_only # <<>>

\* ---------------------------------------------------------------- C21
\* s without the rows that a later row of the same id supersedes.
RECURSIVE KeepLast(_)
KeepLast(s) ==
    IF s = <<>> THEN <<>>
    ELSE IF Head(s).id \in IdsOf(Tail(s)) THEN KeepLast(Tail(s))
    ELSE <<Head(s)>> \o KeepLast(Tail(s))

\* C21: when an id occurs more than once within one side, the last
\* occurrence stands for it: the comparison and the matched count are those
\* of the two sides with every superseded row removed.
C21_LastOccurrenceWins ==
    pc = "reconciled" =>
        /\ comparison = reconcile(KeepLast(excel_payments), KeepLast(qb_payments))
        /\ report_payload.same_records =
              _count_matching_payments(KeepLast(excel_payments),
                                       KeepLast(qb_payments))

\* An id twice on the Excel side: its first row is two cents from the
\* QuickBooks payment, its last row within the tolerance; no conflict.
C21_Witness ==
    /\ pc = "reconciled"
    /\ Len(excel_payments) = 2
    /\ excel_payments[1].id = excel_payments[2].id
    /\ excel_payments[1].id \in IdsOf(qb_payments)
    /\ ~SameData(excel_payments[1], ById(qb_payments, excel_payments[1].id))
    /\ SameData(excel_payments[2], ById(qb_payments, excel_payments[1].id))
    /\ comparison.conflicts = <<>>

\* ---------------------------------------------------------------- C22
\* The rows of the sheet that yielded a payment, in row order.
RowKept(row) == RowPayments(row) # <<>>
Kept == SelectSeq(ws, RowKept)

\* The row as the comparison's bill record: its id text under "Parent ID",
\* its child text under "Child ID".
AsBill(row) ==
    [parent_id |-> IF row.parent_child = <<>> THEN <<>> ELSE row.parent_child[1],
     child_id  |-> row.child_id]

\* C22: the key of a record is "{parent}-{child}" when it has a child
\* (non-empty after trimming), otherwise the trimmed parent; an id text
\* holding " - " is split at the first " - " and its trimmed left segment
\* is the parent; and a record has the same key in the spreadsheet reader
\* (the id of its payment) and in the comparison (get_bill_id).
C22_SameKeyInReaderAndComparison ==
    pc = "sheet_read" =>
        /\ Len(excel_payments) = Len(Kept)
        /\ \A k \in DOMAIN Kept :
             LET bill == AsBill(Kept[k])
                 text == StripText(bill.parent_id)
                 parent == IF FindSeparator(text) # 0
                           THEN StripText(LeftOfSeparator(text)) ELSE text
             IN  /\ excel_payments[k].id = parent
                 /\ excel_payments[k].id = get_bill_id(bill)

\* ---------------------------------------------------------------- C23
AllTagged(s, tag) == \A k \in DOMAIN s : s[k].source = tag

\* C23: every payment read from the workbook is tagged "excel"; every
\* payment read from QuickBooks, listed in qb_only or returned by QuickBooks
\* after the write-back is tagged "quickbooks".
C23_SourceTagsFollowOrigin ==
    /\ AllTagged(excel_payments, "excel")
    /\ AllTagged(comparison.excel_only, "excel")
    /\ AllTagged(qb_payments, "quickbooks")
    /\ AllTagged(comparison.qb_only, "quickbooks")
    /\ AllTagged(added_payments, "quickbooks")

\* ---------------------------------------------------------------- C24
IsOpen(c) == c.method = "OpenConnection2" /\ c.outcome = "ok"
IsBegin(c) == c.method = "BeginSession" /\ c.outcome = "ok"
IsEnd(c) == c.method = "EndSession"
IsClose(c) == c.method = "CloseConnection"

\* C24: once _send_qbxml has returned or raised, no connection and no
\* session is left open: CloseConnection was called for every connection
\* opened and EndSession for every session begun, whichever call failed.
C24_ConnectionAlwaysReleased ==
    pc \in {"send_returned", "send_raised"} =>
        /\ connections = 0
        /\ sessions = 0
        /\ Len(SelectSeq(com_calls, IsClose)) = Len(SelectSeq(com_calls, IsOpen))
        /\ Len(SelectSeq(com_calls, IsEnd)) = Len(SelectSeq(com_calls, IsBegin))

\* ---------------------------------------------------------------- C25
\* C25: a BillPayment built from the fields of a BillPayment is equal to
\* it: after the first normalisation the date is no datetime and no text
\* and the amount no text, so normalising again changes nothing.
C25_NormalisationIdempotent ==
    /\ pc = "constructed" =>
          /\ bp[1].date.kind \notin {"datetime", "str"}
          /\ bp[1].amount_to_pay.kind # "str"
    /\ pc = "reconstructed" => bp_again = bp
    /\ pc = "construct_raised" => bp = <<>>

\* A payment given with the date text "MM/DD/YYYY" and the amount text
\* " 250.5 ": built as the date and the number, and built again unchanged.
C25_Witness ==
    /\ pc = "reconstructed"
    /\ ctor_args.date.kind = "str"
    /\ ctor_args.date.layout = "MM/DD/YYYY"
    /\ ctor_args.amount_to_pay.kind = "str"
    /\ bp[1].date = [kind |-> "date", day |-> ctor_args.date.day]
    /\ bp[1].amount_to_pay = [kind |-> "number", value |-> 250500]
    /\ bp_again = bp

\* ---------------------------------------------------------------- C26
\* The comments that, trimmed and in lower case, read "shipping charges".
ShippingComments == {"Shipping Charges", " shipping charges ", "SHIPPING CHARGES"}

AmountUnusable(cell) ==
    cell.kind = "none" \/ (cell.kind = "str" /\ cell.spells = <<>>)

DateUnresolved(cell) ==
    /\ cell.kind \notin {"date", "datetime"}
    /\ ~(cell.kind = "str" /\
         cell.layout \in {"YYYY-MM-DD", "YYYY-MM-DD HH:MM:SS",
                          "YYYY-MM-DDTHH:MM", "MM/DD/YYYY", "MM/DD/YY"})

Retained(row) ==
    ~(\/ row.comments \in ShippingComments
      \/ AmountUnusable(row.check_amount)
      \/ DateUnresolved(row.bank_date))

\* C26: the reader raises on no row; it drops a row whose comment marks a
\* shipping charge, whose amount is missing or not numeric, or whose date
\* resolves to no calendar date, and yields for every other row exactly one
\* payment, with the row's own date and amount, the payments standing in
\* row order.
C26_RowsDroppedOrReadInOrder ==
    /\ exc = "none"
    /\ pc = "sheet_read" =>
          LET rows == SelectSeq(ws, Retained)
          IN  /\ Len(excel_payments) = Len(rows)
              /\ \A k \in DOMAIN rows :
                   /\ excel_payments[k].date = rows[k].bank_date.day
                   /\ excel_payments[k].amount_to_pay =
                         (IF rows[k].check_amount.kind = "number"
                          THEN rows[k].check_amount.value
                          ELSE rows[k].check_amount.spells[1])
                   /\ excel_payments[k].id = ParentStr(rows[k].parent_child)
                   /\ excel_payments[k].source = "excel"

\* A sheet whose first row is a shipping charge and whose second row gives
\* its amount as the text " 250.5 ": one payment, that of the second row.
C26_Witness ==
    /\ pc = "sheet_read"
    /\ Len(ws) = 2
    /\ ws[1].comments = " shipping charges "
    /\ ws[2].check_amount.kind = "str"
    /\ Len(excel_payments) = 1
    /\ excel_payments[1].amount_to_pay = 250500

\* ---------------------------------------------------------------- C27
CountOf(s, id) == Cardinality({k \in DOMAIN s : s[k].id = id})

\* C27: a payment QuickBooks created for id X is stored under the memo X
\* and read back with the id X, so a later run over the same workbook does
\* not have X among its excel_only payments and submits no request for X;
\* however often run_pay_bills is run again, QuickBooks holds at most one
\* payment of id X. Step by step: a batch holds one request per id, none
\* for an id QuickBooks holds, and the checks it creates carry ids of
\* payments of the batch.
C27_AcknowledgedNeverResubmitted ==
    /\ [][sent' # sent =>
            LET batch   == sent'[Len(sent')]
                created == SubSeq(ledger_store', Len(ledger_store) + 1,
                                  Len(ledger_store'))
            IN  /\ \A k \in DOMAIN batch :
                     /\ batch[k].Memo = Selected[k].payment.id
                     /\ Selected[k].payment.id \notin IdsOf(ledger_store)
                /\ \A i, j \in DOMAIN batch :
                     i # j => Selected[i].payment.id # Selected[j].payment.id
                /\ \A j \in DOMAIN created :
                     \E k \in DOMAIN batch :
                         created[j].id = Selected[k].payment.id
                /\ \A i, j \in DOMAIN created :
                     i # j => created[i].id # created[j].id]_vars
    /\ [](/\ pc \in {"add_batch", "plan"} =>
               /\ qb_payments = ledger_store
               /\ IdsOf(comparison.excel_only) \cap IdsOf(ledger_store) = {}
          /\ \A id \in IdsOf(workbook.rows) : CountOf(ledger_store, id) <= 1)

\* The first run had payment 1 created; the second run read it back,
\* compared, found nothing to add and sent nothing: one batch in all.
C27_Witness ==
    /\ runs = 2
    /\ pc = "done"
    /\ Len(sent) = 1
    /\ \E k \in DOMAIN sent[1] : sent[1][k].Memo = 1
    /\ CountOf(ledger_store, 1) = 1
    /\ 1 \in IdsOf(qb_payments)
    /\ 1 \in IdsOf(excel_payments)
    /\ 1 \notin IdsOf(comparison.excel_only)
    /\ report_payload.status = "success"

\* ---------------------------------------------------------------- C28
\* C28: a run of main() that compared and returned 0 has written the
\* report, also when the comparison found nothing to add, and the report
\* written holds the payments QuickBooks acknowledged as added.
C28_ExitZeroHasWrittenReport ==
    (pc = "main_returned" /\ exit_code = <<0>> /\ result # <<>>) =>
        /\ reports_written = 1
        /\ report_payload = result[1]
        /\ report_payload.added_to_bill_payments = added_payments

\* ---------------------------------------------------------------- C29
\* The ids listed in a result list of BillPayment objects, and the bill ids
\* of the conflicts with reason payment_mismatch.
ListedIn(list) == {list[k].id : k \in DOMAIN list}
Mismatched(conflicts) ==
    {conflicts[k].bill_id :
        k \in {j \in DOMAIN conflicts : conflicts[j].reason = "payment_mismatch"}}

\* How often an id appears in the three lists together.
TimesListed(r, id) ==
    Cardinality({k \in DOMAIN r.same_records : r.same_records[k].id = id})
    + Cardinality({k \in DOMAIN r.payments_to_add : r.payments_to_add[k].id = id})
    + Cardinality({k \in DOMAIN r.conflicts :
                     /\ r.conflicts[k].reason = "payment_mismatch"
                     /\ r.conflicts[k].bill_id = id})

\* Two amounts differ by at most the tolerance of 0.01.
WithinTolerance(a, b) == Abs(a - b) <= AmountTolerance

\* Two date values are the same date: the date each normalises to in a
\* BillPayment is the same.
SameDate(x, y) == NormalisedDate(x) # <<>> /\ NormalisedDate(x) = NormalisedDate(y)

\* C29: after compare_bill_payments, every bill id in both the Excel index
\* and the QuickBooks index whose Excel amount is not zero is listed exactly
\* once in same_records, the payment_mismatch conflicts and payments_to_add
\* together: in payments_to_add iff QuickBooks has no payment for the bill,
\* in same_records iff some QuickBooks payment of the bill has the amount
\* within the tolerance and the same date, in conflicts otherwise; an id
\* whose Excel amount is zero or missing is in none of the three.
C29_PaidBillInExactlyOneCategory ==
    pc = "compared" =>
        LET r == results[1]
            by_id == excel_by_id(excel_bills)
            pays_by_txn == qb_payments_by_txn(qb_payments)
            PaymentsOf(id) ==
                IF id \in DOMAIN pays_by_txn THEN pays_by_txn[id] ELSE <<>>
            Matches(id) ==
                \E k \in DOMAIN PaymentsOf(id) :
                    /\ WithinTolerance(excel_amount(by_id[id]),
                                       qb_amount(PaymentsOf(id)[k]))
                    /\ SameDate(excel_date(by_id[id]), qb_date(PaymentsOf(id)[k]))
        IN  /\ \A id \in DOMAIN by_id \cap DOMAIN qb_by_txn(qb_bills) :
                 IF excel_amount(by_id[id]) = 0
                 THEN TimesListed(r, id) = 0
                 ELSE /\ TimesListed(r, id) = 1
                      /\ id \in ListedIn(r.payments_to_add)
                            <=> PaymentsOf(id) = <<>>
                      /\ id \in ListedIn(r.same_records)
                            <=> PaymentsOf(id) # <<>> /\ Matches(id)
                      /\ id \in Mismatched(r.conflicts)
                            <=> PaymentsOf(id) # <<>> /\ ~Matches(id)
            /\ \A id \in DOMAIN by_id \ DOMAIN qb_by_txn(qb_bills) :
                 TimesListed(r, id) = 0

====
